---- MODULE Spec2Model ----
(***************************************************************************)
(* A model of the hypothesis-test service (src/hyphothesis/app): the       *)
(* start-up of the flask application, the process-wide root logger that    *)
(* every request adds a file handler to, and the view functions of         *)
(* /z-test, /two-sample-ztest, /one-sample-t-test, /two-sample-t-test and  *)
(* /paired-t-test-api.                                                     *)
(*                                                                         *)
(* Numbers.  A JSON number is an integer in hundredths (Scale = 100), so   *)
(* 0.05 is 5, 0.95 is 95, 1.5 is 150 and 95 is 9500; group sizes, sample   *)
(* points and list lengths are plain integers.  A JSON value is a record   *)
(* [t, v]: t is "absent" (the key is missing), "num", "str" (a string      *)
(* that is no number), and v is the number.                                *)
(*                                                                         *)
(* Floats.  A numpy/scipy float result is abstracted to its class [m, s]:  *)
(* m is "fin", "inf" or "nan" and s is the sign; an interval bound is      *)
(* "fin", "ninf", "pinf" or "nan".                                         *)
(*                                                                         *)
(* p-values.  The distribution functions of scipy and statsmodels are not  *)
(* computed: the p-values that the data of a request determine are chosen  *)
(* with the request and kept in req.stat, and a p-value is [nan, v] with v *)
(* in hundredths.  The draw of np.random.normal on the summary-statistics  *)
(* path of /two-sample-t-test is chosen apart from them and is not kept.   *)
(*                                                                         *)
(* Start-up and requests.  CreateApp is the import of app.api followed by  *)
(* create_app.  Each view function is modelled as flask would call it on   *)
(* a parsed JSON object, and does not read the outcome of the start-up;    *)
(* the name P_VALUE_REJECT_DEFAULT, which one_sample_t_test_api.py reads   *)
(* and constant.py does not define, has an unknown value fixed at Init.    *)
(***************************************************************************)
EXTENDS Integers, Sequences, FiniteSets, TLC

VARIABLES
    app,        \* start-up: "init", "running" or "import_error"
    registered, \* the endpoints registered on the application
    handlers,   \* the root logger's handlers: the log file of each, in order
    req,        \* the request handled last: [endpoint, body, stat]
    resp,       \* its response: [status, error, result]
    log,        \* the log records it emitted, in order: [level, msg]
    delivered,  \* how many times each of those records was written to each file
    repeated,   \* history: "same" or "differs" when the request handled last
                \* repeats the one before it, by what its response did; else "no"
    pValueRejectDefault \* P_VALUE_REJECT_DEFAULT, which constant.py leaves undefined

vars == <<app, registered, handlers, req, resp, log, delivered, repeated, pValueRejectDefault>>

\* The number of requests a behaviour handles.
MaxRequests == 2

\* The unit of a JSON number: hundredths.
Scale == 10 * 10

----------------------------------------------------------------------------
(* helpers/constant.py *)

\* The names constant.py defines.
constant ==
    { "Z_TEST_LOG_FILE_PATH", "TWO_SAMPLE_Z_TEST_LOG_FILE_PATH",
      "ONE_SAMPLE_T_TEST_LOG_FILE_PATH", "TWO_SAMPLE_T_TEST_LOG_FILE_PATH",
      "PAIRED_T_TEST_LOG_FILE_PATH",
      "ALPHA_VALUE_DEFAULT", "YATES_CORRECTION_DEFAULT",
      "CONFIDENCE_INTERVAL_DEFAULT", "POPULATION_MEAN_DEFAULT",
      "ALTERNATIVE_DEFAULT",
      "INVALID_JSON_ERROR", "VALUE_ERROR_MSG", "KEY_ERROR_MSG", "TYPE_ERROR_MSG",
      "ZERO_DIVISION_ERROR_MSG", "INDEX_ERROR_MSG", "UNEXPECTED_ERROR_MSG",
      "LOG_VALUE_ERROR", "LOG_KEY_ERROR", "LOG_TYPE_ERROR",
      "LOG_ZERO_DIVISION_ERROR", "LOG_INDEX_ERROR", "LOG_UNEXPECTED_ERROR" }

\* The defaults, in hundredths: 0.05, 0, 0.95, 0.
ALPHA_VALUE_DEFAULT == 5
YATES_CORRECTION_DEFAULT == 0
CONFIDENCE_INTERVAL_DEFAULT == 95
POPULATION_MEAN_DEFAULT == 0

ZERO_DIVISION_ERROR_MSG == "Division by zero encountered during calculation."
INDEX_ERROR_MSG == "Error while processing data. Ensure proper data structure."
UNEXPECTED_ERROR_MSG == "An unexpected error occurred. Please try again later."
\* The three messages that end with the exception's text, without that text.
VALUE_ERROR_MSG == "Invalid input value: "
KEY_ERROR_MSG == "Missing required field: "
TYPE_ERROR_MSG == "Invalid data type: "

\* The names every endpoint module imports.
CommonErrorNames ==
    { "VALUE_ERROR_MSG", "KEY_ERROR_MSG", "TYPE_ERROR_MSG", "ZERO_DIVISION_ERROR_MSG",
      "INDEX_ERROR_MSG", "UNEXPECTED_ERROR_MSG", "LOG_VALUE_ERROR", "LOG_KEY_ERROR",
      "LOG_TYPE_ERROR", "LOG_ZERO_DIVISION_ERROR", "LOG_INDEX_ERROR",
      "LOG_UNEXPECTED_ERROR" }

----------------------------------------------------------------------------
(* app/__init__.py and app/api/__init__.py *)

Endpoints ==
    { "/z-test", "/two-sample-ztest", "/one-sample-t-test", "/two-sample-t-test",
      "/paired-t-test-api" }

\* The endpoint modules in the order api/__init__.py imports them.
ModuleOrder ==
    << "/z-test", "/two-sample-ztest", "/one-sample-t-test", "/two-sample-t-test",
       "/paired-t-test-api" >>

\* What each endpoint module imports from helpers/constant.
Imports(m) ==
    CASE m = "/z-test" ->
           CommonErrorNames \cup { "Z_TEST_LOG_FILE_PATH", "ALPHA_VALUE_DEFAULT",
                                   "YATES_CORRECTION_DEFAULT", "CONFIDENCE_INTERVAL_DEFAULT" }
      [] m = "/two-sample-ztest" ->
           CommonErrorNames \cup { "TWO_SAMPLE_Z_TEST_LOG_FILE_PATH",
                                   "CONFIDENCE_INTERVAL_DEFAULT", "ALTERNATIVE_DEFAULT" }
      [] m = "/one-sample-t-test" ->
           CommonErrorNames \cup { "ONE_SAMPLE_T_TEST_LOG_FILE_PATH",
                                   "CONFIDENCE_INTERVAL_DEFAULT", "POPULATION_MEAN_DEFAULT",
                                   "P_VALUE_REJECT_DEFAULT", "ALPHA_VALUE_DEFAULT" }
      [] m = "/two-sample-t-test" ->
           CommonErrorNames \cup { "TWO_SAMPLE_T_TEST_LOG_FILE_PATH",
                                   "CONFIDENCE_INTERVAL_DEFAULT", "P_VALUE_REJECT_DEFAULT",
                                   "ALPHA_VALUE_DEFAULT", "EQUAL_VARIANCE_DEFAULT" }
      [] m = "/paired-t-test-api" ->
           CommonErrorNames \cup { "PAIRED_T_TEST_LOG_FILE_PATH",
                                   "CONFIDENCE_INTERVAL_DEFAULT", "ALPHA_VALUE_DEFAULT" }

\* `from .x import y` raises ImportError when constant.py does not define a name.
ImportFails(m) == ~(Imports(m) \subseteq constant)

\* Importing app.api: the five imports run before any register_blueprint, so
\* one failing import leaves nothing registered.
ApiImportOk == \A i \in DOMAIN ModuleOrder : ~ImportFails(ModuleOrder[i])

\* create_app(), with the import of app.api that precedes it.
CreateApp ==
    /\ app = "init"
    /\ app' = IF ApiImportOk THEN "running" ELSE "import_error"
    /\ registered' = IF ApiImportOk THEN Endpoints ELSE {}
    /\ UNCHANGED <<handlers, req, resp, log, delivered, repeated, pValueRejectDefault>>

----------------------------------------------------------------------------
(* helpers/logger.py *)

\* The log file of each endpoint (the *_LOG_FILE_PATH constants).
LogFile(e) ==
    CASE e = "/z-test" -> "z_test_api.log"
      [] e = "/two-sample-ztest" -> "two_sample_z_test_api.log"
      [] e = "/one-sample-t-test" -> "one_sample_t_test_api.log"
      [] e = "/two-sample-t-test" -> "two_sample_t_test_api.log"
      [] e = "/paired-t-test-api" -> "paired_t_test_api.log"

LogFiles == { LogFile(e) : e \in Endpoints }

\* A Logger that adds a handler only for a file the root logger does not write yet.
LoggerInitOnce(hs, file) == IF \E i \in DOMAIN hs : hs[i] = file THEN hs ELSE Append(hs, file)

\* Logger.__init__: a new FileHandler on the file is added to the root logger.
LoggerInit(hs, file) == Append(hs, file)

\* The root logger hands a record to every handler it holds: the number of
\* copies of one record that reach `file`.
Copies(hs, file) == Cardinality({ i \in DOMAIN hs : hs[i] = file })

Info(m) == [level |-> "INFO", msg |-> m]
Error(m) == [level |-> "ERROR", msg |-> m]

----------------------------------------------------------------------------
(* JSON values and responses *)

Absent == [t |-> "absent", v |-> 0]
Num(n) == [t |-> "num", v |-> n]
Str == [t |-> "str", v |-> 0]

\* dict.get(key, default) of a number field.
Get(x, default) == IF x.t = "absent" THEN Num(default) ELSE x

NoResult == [kind |-> "none"]

\* What a view function hands back: the response and the records it logged.
Reply(status, error, result, logs) ==
    [status |-> status, error |-> error, result |-> result, log |-> logs]

\* The except clauses every view function ends with (the message with the
\* exception's text is kept to its fixed part).
Except(exc, logs) ==
    CASE exc = "ValueError" ->
           Reply(400, VALUE_ERROR_MSG, NoResult, Append(logs, Error("ValueError")))
      [] exc = "KeyError" ->
           Reply(400, KEY_ERROR_MSG, NoResult, Append(logs, Error("KeyError")))
      [] exc = "TypeError" ->
           Reply(400, TYPE_ERROR_MSG, NoResult, Append(logs, Error("TypeError")))
      [] exc = "ZeroDivisionError" ->
           Reply(400, ZERO_DIVISION_ERROR_MSG, NoResult,
                 Append(logs, Error("ZeroDivisionError")))
      [] exc = "IndexError" ->
           Reply(400, INDEX_ERROR_MSG, NoResult, Append(logs, Error("IndexError")))
      [] OTHER ->
           Reply(500, UNEXPECTED_ERROR_MSG, NoResult,
                 Append(logs, Error("Unexpected error")))

\* The behaviours handle MaxRequests requests.
Accepting == Len(handlers) < MaxRequests

\* A view function that remembers: it answers its first request only, and
\* every later one with an empty result.
HandleOnce(endpoint, body, stat, out) ==
    /\ handlers' = LoggerInit(handlers, LogFile(endpoint))
    /\ req' = [endpoint |-> endpoint, body |-> body, stat |-> stat]
    /\ resp' = [status |-> out.status, error |-> out.error,
                result |-> IF handlers = << >> THEN out.result ELSE NoResult]
    /\ log' = out.log
    /\ delivered' = [f \in LogFiles |-> Copies(handlers', f)]
    /\ repeated' = IF req.endpoint = endpoint /\ req.body = body /\ req.stat = stat
                   THEN (IF resp' = resp THEN "same" ELSE "differs")
                   ELSE "no"
    /\ UNCHANGED <<app, registered, pValueRejectDefault>>

\* One request: the view function builds its Logger, runs, and returns.  stat
\* is what the distribution functions give on the data of the body (the
\* p-values), which the body determines and the model does not compute.
Handle(endpoint, body, stat, out) ==
    /\ handlers' = LoggerInit(handlers, LogFile(endpoint))
    /\ req' = [endpoint |-> endpoint, body |-> body, stat |-> stat]
    /\ resp' = [status |-> out.status, error |-> out.error, result |-> out.result]
    /\ log' = out.log
    /\ delivered' = [f \in LogFiles |-> Copies(handlers', f)]
    /\ repeated' = IF req.endpoint = endpoint /\ req.body = body /\ req.stat = stat
                   THEN (IF resp' = resp THEN "same" ELSE "differs")
                   ELSE "no"
    /\ UNCHANGED <<app, registered, pValueRejectDefault>>

----------------------------------------------------------------------------
(* p-values *)

\* A p-value: a number in hundredths, or nan.
PNum(v) == [nan |-> FALSE, v |-> v]
PNaN == [nan |-> TRUE, v |-> 0]

\* p <= x, the comparison that is not strict.
PLessOrEqual(p, x) == ~p.nan /\ p.v <= x

\* p < x and p > x on floats: a comparison with nan is False.
PLess(p, x) == ~p.nan /\ p.v < x
PGreater(p, x) == ~p.nan /\ p.v > x

\* The p-values a test can return on the data of a request: the distribution
\* functions are not computed here, a request stands for the data sets that
\* have its shape and each of these p-values.
PValues == { 1, 5, 50 }
POne == { 50 }

\* The two-tailed p-value 2 (1 - cdf(|stat|)) of a statistic of class m ("fin",
\* "inf", "nan") and of the given sign: nan for nan, 0 for an infinite
\* statistic, 1 for the statistic 0, else the value p that the distribution
\* function gives.
TwoTailed(m, sign, p) ==
    IF m = "nan" THEN PNaN
    ELSE IF m = "inf" THEN PNum(0)
    ELSE IF sign = 0 THEN PNum(Scale)
    ELSE PNum(p)

----------------------------------------------------------------------------
(* z_test_api.py *)

\* A range check that forgot its upper bound.
BetweenNoUpper(lo, x, hi) == lo <= x

\* Python's chained comparison lo <= x <= hi on a number.
Between(lo, x, hi) == lo <= x /\ x <= hi

Sgn(x) == IF x > 0 THEN 1 ELSE IF x < 0 THEN -1 ELSE 0

\* The sign of the radicand pooled_p (1 - pooled_p) (1/size1 + 1/size2), where
\* pooled_p = n / (Scale s) for n = size1 prop1 + size2 prop2 and s = size1 + size2:
\* pooled_p (1 - pooled_p) has the sign of n (Scale s - n), and
\* 1/size1 + 1/size2 = s / (size1 size2).
RadicandSign(size1, prop1, size2, prop2) ==
    LET n == size1 * prop1 + size2 * prop2
        s == size1 + size2
    IN  Sgn(n) * Sgn(Scale * s - n) * Sgn(s) * Sgn(size1) * Sgn(size2)

\* The calculation on numpy floats, whose division by zero raises nothing.
ZCalcRaisesNumpy(size1, prop1, size2, prop2) ==
    IF size1 + size2 = 0 THEN "ZeroDivisionError"
    ELSE IF size1 # 0 /\ size2 # 0 /\ RadicandSign(size1, prop1, size2, prop2) < 0
    THEN "ValueError"
    ELSE "none"

\* The calculation, lines 73-120: the exception it raises, or "none".
ZCalcRaises(size1, prop1, size2, prop2) ==
    IF size1 + size2 = 0 THEN "ZeroDivisionError"          \* pooled_p
    ELSE IF size1 = 0 \/ size2 = 0 THEN "ZeroDivisionError" \* 1 / size
    ELSE IF RadicandSign(size1, prop1, size2, prop2) < 0 THEN "ValueError" \* math.sqrt
    ELSE IF RadicandSign(size1, prop1, size2, prop2) = 0 THEN "ZeroDivisionError" \* z_score
    ELSE "none"

\* A z-test that applies the correction asked for: the corrected statistic is
\* nearer to 0, here so near that its p-value is 1.
ZResultCorrected(alpha, yates, conf, size1, prop1, size2, prop2, p) ==
    LET p_value == IF yates > 0 THEN PNum(Scale) ELSE TwoTailed("fin", prop1 - prop2, p)
    IN
    [ kind |-> "z",
      alpha_value |-> alpha,
      yates_correction |-> yates,
      confidence_interval |-> conf,
      difference |-> prop1 - prop2,
      z_sign |-> IF prop1 > prop2 THEN 1 ELSE IF prop1 < prop2 THEN -1 ELSE 0,
      lower |-> "fin",
      upper |-> "fin",
      p_value |-> p_value,
      conclusion |-> IF PLess(p_value, alpha)
                     THEN "There is a significant difference in the proportions."
                     ELSE "No significant difference in the proportions." ]

ZResult(alpha, yates, conf, size1, prop1, size2, prop2, p) ==
    [ kind |-> "z",
      alpha_value |-> alpha,
      yates_correction |-> yates,
      confidence_interval |-> conf,
      difference |-> prop1 - prop2,
      \* standard_error > 0 here, so z_score has the sign of prop1 - prop2
      z_sign |-> IF prop1 > prop2 THEN 1 ELSE IF prop1 < prop2 THEN -1 ELSE 0,
      \* (prop1 - prop2) -+ z_critical * standard_error, both factors positive
      lower |-> "fin",
      upper |-> "fin",
      p_value |-> TwoTailed("fin", prop1 - prop2, p),
      conclusion |-> IF PLess(TwoTailed("fin", prop1 - prop2, p), alpha)
                     THEN "There is a significant difference in the proportions."
                     ELSE "No significant difference in the proportions." ]

ZReceived == << Info("Received data") >>

perform_z_test(body, p) ==
    LET alpha_value == Get(body.Alpha_value, ALPHA_VALUE_DEFAULT)
        yates_correction == Get(body.Yates_correction, YATES_CORRECTION_DEFAULT)
        confidence_interval == Get(body.Confidence_interval, CONFIDENCE_INTERVAL_DEFAULT)
        input_data == IF body.Data.t = "absent" THEN << >> ELSE body.Data.rows
    IN
    IF alpha_value.t # "num" THEN Except("TypeError", ZReceived)
    ELSE IF ~Between(0, alpha_value.v, 1 * Scale) THEN
        Reply(400, "Alpha_value must be between 0 and 1.", NoResult,
              Append(ZReceived, Error("Invalid Alpha_value")))
    ELSE IF yates_correction.t # "num" THEN Except("TypeError", ZReceived)
    ELSE IF ~Between(0, yates_correction.v, 1 * Scale) THEN
        Reply(400, "Yates_correction must be either 0 or 1.", NoResult,
              Append(ZReceived, Error("Invalid Yates_correction")))
    ELSE IF confidence_interval.t # "num" THEN Except("TypeError", ZReceived)
    ELSE IF ~Between(1 * Scale, confidence_interval.v, 99 * Scale) THEN
        Reply(400, "Confidence_interval must be between 1 and 99.", NoResult,
              Append(ZReceived, Error("Invalid Confidence_interval")))
    ELSE IF Len(input_data) # 2 \/ Len(input_data[1]) # 2 \/ Len(input_data[2]) # 2 THEN
        Reply(400, "Data must contain two rows and two columns.", NoResult,
              Append(ZReceived, Error("Invalid Data")))
    ELSE
        LET size1 == input_data[1][1]
            prop1 == input_data[1][2]
            size2 == input_data[2][1]
            prop2 == input_data[2][2]
            exc == ZCalcRaises(size1, prop1, size2, prop2)
        IN
        IF ~(Between(0, prop1, 1 * Scale) /\ Between(0, prop2, 1 * Scale)) THEN
            Reply(400, "Proportions must be between 0 and 1.", NoResult,
                  Append(ZReceived, Error("Invalid Proportions")))
        ELSE IF exc # "none" THEN Except(exc, ZReceived)
        ELSE
            Reply(200, "",
                  ZResult(alpha_value.v, yates_correction.v, confidence_interval.v,
                          size1, prop1, size2, prop2, p),
                  ZReceived \o << Info("Z-score"), Info("P-value"),
                                  Info("Confidence Interval"), Info("Power of the test"),
                                  Info("Conclusion") >>)

\* The request bodies of /z-test.
ZAlphas == { Absent, Str, Num(150) }
ZYates == { Absent, Num(200) }
ZConfs == { Absent, Num(9500), Num(15000) }
ZRows == { <<40>>, <<0, 30>>, <<40, 30>>, <<160, 70>>, <<40, 150>>, <<40, 0>>, <<-40, 30>> }
ZData ==
    { [t |-> "absent", rows |-> << >>], [t |-> "list", rows |-> << >>],
      [t |-> "list", rows |-> << <<40, 30>> >>],
      [t |-> "list", rows |-> << <<40, 30>>, <<160, 70>>, <<40, 30>> >>] }
    \cup { [t |-> "list", rows |-> <<r1, r2>>] : r1 \in ZRows, r2 \in ZRows }

ZBodies ==
    [ Alpha_value : ZAlphas, Yates_correction : ZYates,
      Confidence_interval : ZConfs, Data : ZData ]

\* A few bodies of /z-test, one for each kind of response.
ZFew ==
    { b \in ZBodies :
        /\ b.Yates_correction = Absent
        /\ b.Alpha_value # Str
        /\ b.Data \in { [t |-> "absent", rows |-> << >>],
                        [t |-> "list", rows |-> << <<40, 30>>, <<160, 70>> >>],
                        [t |-> "list", rows |-> << <<0, 30>>, <<160, 70>> >>] } }

\* A request on data whose p-value is one of pvalues.
ZTestOn(bodies, pvalues) ==
    /\ Accepting
    /\ \E body \in bodies : \E p \in pvalues :
          Handle("/z-test", body, p, perform_z_test(body, p))

\* Accepted bodies with each value of Yates_correction, 0 and 1.
ZYatesBodies ==
    { [ Alpha_value |-> alpha, Yates_correction |-> yates,
        Confidence_interval |-> Num(9500), Data |-> [t |-> "list", rows |-> rows] ] :
        alpha \in { Absent, Num(10) }, yates \in { Num(0), Num(1 * Scale) },
        rows \in { << <<40, 30>>, <<160, 70>> >>, << <<40, 30>>, <<40, 30>> >> } }

ZTest ==
    \/ ZTestOn(ZBodies, POne)
    \/ ZTestOn(ZYatesBodies, PValues)

----------------------------------------------------------------------------
(* numpy / scipy floats, by class *)

\* A float is [m, s]: m is "fin", "inf" or "nan" and s its sign (0 for nan).
NaN == [m |-> "nan", s |-> 0]
Fin(x) == [m |-> "fin", s |-> Sgn(x)]
Inf(sign) == [m |-> "inf", s |-> sign]

IsNaN(a) == a.m = "nan"
IsFinite(a) == a.m = "fin"

\* a * b in IEEE arithmetic: 0 * inf is nan.
FMul(a, b) ==
    IF IsNaN(a) \/ IsNaN(b) THEN NaN
    ELSE IF (a.m = "inf" /\ b.s = 0) \/ (b.m = "inf" /\ a.s = 0) THEN NaN
    ELSE IF a.m = "inf" \/ b.m = "inf" THEN Inf(a.s * b.s)
    ELSE [m |-> "fin", s |-> a.s * b.s]

\* a / b on numpy floats: a division by zero warns and gives inf or nan, it
\* raises nothing (b = 0 is +0.0 here).
FDiv(a, b) ==
    IF IsNaN(a) \/ IsNaN(b) THEN NaN
    ELSE IF a.m = "inf" /\ b.m = "inf" THEN NaN
    ELSE IF b.m = "inf" THEN [m |-> "fin", s |-> 0]
    ELSE IF b.s = 0 THEN (IF a.s = 0 THEN NaN ELSE Inf(a.s))
    ELSE [m |-> a.m, s |-> a.s * b.s]

\* centre - margin (sign = -1) or centre + margin (sign = 1) for a finite centre:
\* "nan", "ninf", "pinf", or "fin".
Bound(margin, sign) ==
    IF IsNaN(margin) THEN "nan"
    ELSE IF margin.m = "inf" THEN (IF sign * margin.s > 0 THEN "pinf" ELSE "ninf")
    ELSE "fin"

\* stats.t.ppf(1 - (1 - confidence) / 2, df) for df > 0: the quantile
\* q = (Scale + confidence) / (2 Scale) is a probability only for
\* -1 <= confidence <= 1, and ppf is nan outside [0, 1].
TCritical(confidence) ==
    IF confidence > Scale \/ confidence < -Scale THEN NaN
    ELSE IF confidence = Scale THEN Inf(1)
    ELSE IF confidence = -Scale THEN Inf(-1)
    ELSE Fin(confidence)

RECURSIVE Sum(_)
Sum(xs) == IF xs = << >> THEN 0 ELSE Head(xs) + Sum(Tail(xs))

\* np.std(xs, ddof=1) is 0 exactly when all the points are equal.
AllEqual(xs) == \A i \in DOMAIN xs : xs[i] = xs[1]

----------------------------------------------------------------------------
(* one_sample_t_test_api.py *)

\* float(x) of a JSON value: a string that is no number raises ValueError.
FloatRaises(x) == x.t # "num"

\* isinstance(x, (int, float))
IsNumeric(x) == x.t = "num"

\* Lines 87-165, from the statistics of the sample on: n >= 2, diff is the sign
\* of sample_mean - population_mean, std the class of sample_std; py_std says
\* that sample_std is a Python number, whose division by 0 raises.
T1Compute(body, source, n, diff, std, py_std, confidence_level, p_value_reject, alpha, p) ==
    LET standard_error == std                  \* sample_std / np.sqrt(sample_size)
        t_stat == FDiv(Fin(diff), standard_error)
        t_critical == TCritical(confidence_level)
        margin_of_error == FMul(t_critical, standard_error)
        p_value == TwoTailed(t_stat.m, t_stat.s, p)
        shapiro == body.DB /\ source = "sample" /\ body.shaprio_walk
        kolmo == body.DB /\ source = "sample" /\ body.kolmo_with_correction
        result ==
            [ kind |-> "t1",
              source |-> source,
              size |-> n,
              df |-> n - 1,
              std |-> std,
              t |-> t_stat,
              \* 2 (1 - cdf(|t|)) is nan only for a nan statistic
              p |-> IF IsNaN(t_stat) THEN "nan" ELSE "fin",
              p_value |-> p_value,
              conclusion |-> IF PLess(p_value, p_value_reject)
                             THEN "The null hypothesis is rejected, indicating a significant difference."
                             ELSE "The null hypothesis is not rejected",
              lower |-> Bound(margin_of_error, -1),
              upper |-> Bound(margin_of_error, 1),
              margin |-> margin_of_error,
              normality |-> (IF shapiro THEN {"Shapiro-Wilk"} ELSE {})
                            \cup (IF kolmo THEN {"Kolmogorov-Smirnov"} ELSE {}),
              p_value_reject |-> p_value_reject,
              alpha |-> alpha ]
    IN
    \* stats.shapiro needs 3 points, lilliefors 4
    IF shapiro /\ n < 3 THEN Except("ValueError", << >>)
    ELSE IF kolmo /\ n < 4 THEN Except("ValueError", << >>)
    \* effect_size = abs(sample_mean - population_mean) / sample_std
    ELSE IF py_std /\ std.s = 0 THEN Except("ZeroDivisionError", << >>)
    ELSE Reply(200, "", result, << Info("result") >>)

\* The summary statistics of "values" without the check of the size.
T1ValuesAnySize(body, population_mean, confidence_level, p_value_reject, alpha, p) ==
    LET values == body.values IN
    IF ~(IsNumeric(values.size) /\ IsNumeric(values.mean))
       \/ (values.deviation.t = "absent" /\ values.standard_error.t = "absent")
    THEN Except("ValueError", << >>)
    ELSE IF values.deviation.t # "absent" /\ ~IsNumeric(values.deviation)
    THEN Except("ValueError", << >>)
    ELSE IF values.deviation.t = "absent" /\ ~IsNumeric(values.standard_error)
    THEN Except("ValueError", << >>)
    ELSE
        T1Compute(body, "values", values.size.v,
                  Sgn(values.mean.v - population_mean),
                  IF values.deviation.t # "absent" THEN Fin(values.deviation.v)
                  ELSE Fin(values.standard_error.v),
                  values.deviation.t # "absent",
                  confidence_level, p_value_reject, alpha, p)

\* Lines 57-81: the summary statistics of "values".
T1Values(body, population_mean, confidence_level, p_value_reject, alpha, p) ==
    LET values == body.values
        sample_size == values.size
        sample_mean == values.mean
        sample_std == values.deviation
        standard_error == values.standard_error
    IN
    IF ~(IsNumeric(sample_size) /\ IsNumeric(sample_mean))
       \/ (sample_std.t = "absent" /\ standard_error.t = "absent")
    THEN Except("ValueError", << >>)
    ELSE IF sample_std.t # "absent" /\ ~IsNumeric(sample_std) THEN Except("ValueError", << >>)
    ELSE IF sample_std.t = "absent" /\ ~IsNumeric(standard_error)
    THEN Except("ValueError", << >>)
    ELSE IF sample_size.v < 2 THEN Except("ValueError", << >>)
    ELSE
        T1Compute(body, "values", sample_size.v,
                  Sgn(sample_mean.v - population_mean),
                  \* sample_std, or standard_error * np.sqrt(sample_size)
                  IF sample_std.t # "absent" THEN Fin(sample_std.v) ELSE Fin(standard_error.v),
                  sample_std.t # "absent",
                  confidence_level, p_value_reject, alpha, p)

\* Lines 49-55: the raw "sample".
T1Sample(body, population_mean, confidence_level, p_value_reject, alpha, p) ==
    LET sample_data == body.sample IN
    IF sample_data.t # "list" \/ Len(sample_data.pts) < 2 THEN Except("ValueError", << >>)
    ELSE
        T1Compute(body, "sample", Len(sample_data.pts),
                  Sgn(Scale * Sum(sample_data.pts) - population_mean * Len(sample_data.pts)),
                  IF AllEqual(sample_data.pts) THEN Fin(0) ELSE Fin(1),
                  FALSE,
                  confidence_level, p_value_reject, alpha, p)

perform_one_sample_t_test(body, p) ==
    LET population_mean == Get(body.population_mean, POPULATION_MEAN_DEFAULT)
        confidence_level == Get(body.confidence_level, CONFIDENCE_INTERVAL_DEFAULT)
        p_value_reject == Get(body.P_value_reject, pValueRejectDefault)
        alpha == Get(body.alpha_value, ALPHA_VALUE_DEFAULT)
    IN
    IF FloatRaises(population_mean) \/ FloatRaises(confidence_level)
       \/ FloatRaises(p_value_reject) \/ FloatRaises(alpha)
    THEN Except("ValueError", << >>)
    ELSE IF body.sample.t # "absent" THEN
        T1Sample(body, population_mean.v, confidence_level.v, p_value_reject.v, alpha.v, p)
    ELSE IF body.values.t # "absent" THEN
        T1Values(body, population_mean.v, confidence_level.v, p_value_reject.v, alpha.v, p)
    ELSE Except("KeyError", << >>)

\* The request bodies of /one-sample-t-test.
NoSample == [t |-> "absent", pts |-> << >>]
List(xs) == [t |-> "list", pts |-> xs]
NoValues ==
    [t |-> "absent", size |-> Absent, mean |-> Absent, deviation |-> Absent,
     standard_error |-> Absent]
Values(size, mean, deviation, standard_error) ==
    [t |-> "dict", size |-> size, mean |-> mean, deviation |-> deviation,
     standard_error |-> standard_error]

T1Samples ==
    { [t |-> "str", pts |-> << >>], List(<<55>>), List(<<50, 50>>), List(<<50, 50, 50>>),
      List(<<55, 45>>), List(<<55, 45, 65, 54>>) }
T1ValueDicts ==
    { Values(Num(1), Num(5500), Num(1000), Absent),
      Values(Num(1), Num(5500), Absent, Num(300)),
      Values(Num(0), Num(5500), Num(1000), Absent),
      Values(Num(11), Num(5500), Num(1000), Absent),
      Values(Num(11), Num(5500), Num(0), Absent),
      Values(Num(11), Num(5500), Absent, Num(300)),
      Values(Num(11), Num(5500), Absent, Num(0)),
      Values(Num(11), Num(5500), Absent, Absent),
      Values(Str, Num(5500), Num(1000), Absent),
      Values(Num(11), Num(5500), Str, Absent) }
T1Data ==
    { <<NoSample, NoValues>> }
    \cup { <<x, NoValues>> : x \in T1Samples }
    \cup { <<NoSample, v>> : v \in T1ValueDicts }
    \cup { <<List(<<55, 45, 65, 54>>), Values(Num(11), Num(5500), Num(1000), Absent)>>,
           <<List(<<55>>), Values(Num(11), Num(5500), Num(1000), Absent)>> }
T1Flags == { <<FALSE, FALSE, FALSE>>, <<TRUE, TRUE, FALSE>>, <<TRUE, FALSE, TRUE>> }

T1Body(pm, cl, pvr, al, alt, flags, data) ==
    [ population_mean |-> pm, confidence_level |-> cl, P_value_reject |-> pvr,
      alpha_value |-> al, alternative |-> alt,
      DB |-> flags[1], shaprio_walk |-> flags[2], kolmo_with_correction |-> flags[3],
      sample |-> data[1], values |-> data[2] ]

T1Bodies ==
    { T1Body(pm, cl, Absent, Absent, alt, <<FALSE, FALSE, FALSE>>, data) :
        pm \in { Absent, Num(5000) },
        cl \in { Absent, Num(150), Num(100), Num(-50), Str },
        alt \in { "absent", "two-sided", "invalid_option" },
        data \in T1Data }
    \cup { T1Body(Absent, Absent, Absent, Absent, "absent", flags, data) :
             flags \in T1Flags, data \in T1Data }

T1Few ==
    { T1Body(Absent, cl, pvr, al, "absent", <<FALSE, FALSE, FALSE>>, data) :
        cl \in { Absent, Num(150), Num(-50) }, pvr \in { Absent, Num(5) },
        al \in { Absent, Num(10) },
        data \in { <<NoSample, NoValues>>, <<List(<<55, 45, 65, 54>>), NoValues>>,
                   <<NoSample, Values(Num(11), Num(5500), Num(0), Absent)>> } }

OneSampleTTestOn(bodies, pvalues) ==
    /\ Accepting
    /\ \E body \in bodies : \E p \in pvalues :
          Handle("/one-sample-t-test", body, p, perform_one_sample_t_test(body, p))

OneSampleTTest == OneSampleTTestOn(T1Bodies, POne)

----------------------------------------------------------------------------
(* paired_t_test_api.py *)

\* calculate_paired_t_test on two lists of n >= 2 numbers each; has_nan says that
\* a cell of the pivoted table was empty (a NaN among the values).
calculate_paired_t_test(before, after, has_nan, confidence_level, alpha, shaprio_walk, kolmo_with_correction, p) ==
    LET n == Len(before)
        differences == [i \in 1..n |-> before[i] - after[i]]
        mean_diff == IF has_nan THEN NaN ELSE Fin(Sum(differences))
        std_diff == IF has_nan THEN NaN
                    ELSE IF AllEqual(differences) THEN Fin(0) ELSE Fin(1)
        sem_diff == std_diff                   \* std_diff / np.sqrt(len(before))
        t_stat == FDiv(mean_diff, sem_diff)    \* stats.ttest_rel(before, after)
        p_value == TwoTailed(t_stat.m, t_stat.s, p)
        \* stats.t.interval is nan unless the scale is positive
        ci == IF IsFinite(sem_diff) /\ sem_diff.s > 0 THEN "fin" ELSE "nan"
    IN
    IF shaprio_walk /\ n < 3 THEN [raises |-> "ValueError", result |-> NoResult]
    ELSE IF kolmo_with_correction /\ n < 4 THEN [raises |-> "ValueError", result |-> NoResult]
    ELSE
        [ raises |-> "none",
          result |->
            [ kind |-> "paired",
              n |-> n,
              df |-> n - 1,
              mean_diff |-> mean_diff,
              std_diff |-> std_diff,
              t |-> t_stat,
              p |-> IF IsNaN(t_stat) THEN "nan" ELSE "fin",
              p_value |-> p_value,
              interpretation |-> IF PLess(p_value, alpha) THEN "statistically significant"
                                 ELSE "not statistically significant",
              lower |-> ci,
              upper |-> ci,
              normality |-> (IF shaprio_walk THEN {"Shapiro-Wilk"} ELSE {})
                            \cup (IF kolmo_with_correction THEN {"Kolmogorov-Smirnov"}
                                  ELSE {}),
              alpha |-> alpha ] ]

\* The subjects of a long-format table, in the order of the pivot's index.
RECURSIVE Sorted(_)
Sorted(S) ==
    IF S = {} THEN << >>
    ELSE LET m == CHOOSE x \in S : \A y \in S : x <= y IN <<m>> \o Sorted(S \ {m})

Subjects(rows) == Sorted({ rows[i][1] : i \in DOMAIN rows })
Treatments(rows) == { rows[i][2] : i \in DOMAIN rows }

\* df.pivot raises ValueError when a (subject, treatment) pair occurs twice.
PivotRaises(rows) ==
    \E i, j \in DOMAIN rows : i < j /\ rows[i][1] = rows[j][1] /\ rows[i][2] = rows[j][2]

Cell(rows, subject, label) ==
    { rows[i][3] : i \in { k \in DOMAIN rows : rows[k][1] = subject /\ rows[k][2] = label } }

\* wide_df[label].tolist(): one value for each subject, 0 standing for an empty cell.
Column(rows, label) ==
    LET subjects == Subjects(rows) IN
    [ i \in DOMAIN subjects |->
        IF Cell(rows, subjects[i], label) = {} THEN 0
        ELSE CHOOSE v \in Cell(rows, subjects[i], label) : TRUE ]

HasEmptyCell(rows) ==
    \E i \in DOMAIN Subjects(rows) : \E label \in {"before", "after"} :
        Cell(rows, Subjects(rows)[i], label) = {}

PReceived == << Info("Received data") >>

\* Lines 84-92.
PairedRun(before, after, has_nan, confidence_level, alpha, body, p) ==
    IF Len(before) # Len(after) \/ Len(before) < 2 THEN
        Reply(400, "Lists 'before' and 'after' must have the same length and at least 2 values.",
              NoResult, PReceived)
    ELSE
        LET out == calculate_paired_t_test(before, after, has_nan, confidence_level, alpha,
                                           body.shaprio_walk, body.kolmo_with_correction, p)
        IN  IF out.raises # "none" THEN Except(out.raises, PReceived)
            ELSE Reply(200, "", out.result, Append(PReceived, Info("result")))

perform_paired_t_test(body, p) ==
    LET confidence_level == Get(body.confidence_level, CONFIDENCE_INTERVAL_DEFAULT)
        alpha == Get(body.alpha, ALPHA_VALUE_DEFAULT)
    IN
    IF ~body.is_json THEN
        Reply(400, "Invalid input. Please provide JSON data.", NoResult, << >>)
    ELSE IF FloatRaises(confidence_level) \/ FloatRaises(alpha) THEN
        Except("ValueError", PReceived)
    ELSE IF ~(0 < confidence_level.v /\ confidence_level.v < 1 * Scale) THEN
        Reply(400, "Confidence level must be between 0 and 1.", NoResult, PReceived)
    ELSE IF body.before.t # "absent" /\ body.after.t # "absent" THEN
        \* len() of a number raises TypeError
        IF body.before.t # "list" \/ body.after.t # "list" THEN Except("TypeError", PReceived)
        ELSE PairedRun(body.before.pts, body.after.pts, FALSE, confidence_level.v, alpha.v,
                       body, p)
    ELSE IF body.table.t # "absent" THEN
        \* pd.DataFrame raises ValueError on lists of different lengths
        IF body.table.t = "ragged" \/ PivotRaises(body.table.rows) THEN
            Except("ValueError", PReceived)
        ELSE IF ~({"before", "after"} \subseteq Treatments(body.table.rows)) THEN
            Reply(400, "Invalid format: Missing 'before' or 'after' values.", NoResult,
                  PReceived)
        ELSE PairedRun(Column(body.table.rows, "before"), Column(body.table.rows, "after"),
                       HasEmptyCell(body.table.rows), confidence_level.v, alpha.v, body, p)
    ELSE
        Reply(400,
              "Invalid input format. Provide 'before'/'after' lists or 'subject', 'treatment', 'values'.",
              NoResult, PReceived)

\* Two lists under two names that no view function reads.
NoNamed == [t |-> "absent", names |-> << >>, lists |-> << >>]
Named(name1, list1, name2, list2) ==
    [t |-> "lists", names |-> <<name1, name2>>, lists |-> <<list1, list2>>]

\* The request bodies of /paired-t-test-api.
NoTable == [t |-> "absent", rows |-> << >>]
Table(rows) == [t |-> "table", rows |-> rows]

PLists ==
    { <<NoSample, NoSample>>, <<List(<<55, 45, 65>>), NoSample>>,
      <<List(<<55, 45, 65>>), List(<<74, 85>>)>>,
      <<List(<<55>>), List(<<74>>)>>,
      <<List(<<55, 45>>), List(<<74, 85>>)>>,
      <<List(<<55, 45, 65>>), List(<<56, 46, 66>>)>>,
      <<List(<<55, 45, 65, 54>>), List(<<74, 85, 76, 58>>)>>,
      <<[t |-> "num", pts |-> << >>], List(<<74, 85, 76>>)>> }
PTables ==
    { Table(<< <<1, "before", 55>>, <<1, "after", 74>>, <<2, "before", 45>>,
               <<2, "after", 85>>, <<3, "before", 65>>, <<3, "after", 76>> >>),
      Table(<< <<1, "before", 55>>, <<1, "after", 74>>, <<2, "before", 45>>,
               <<2, "after", 85>>, <<3, "before", 65>> >>),
      Table(<< <<1, "before", 55>>, <<1, "after", 74>>, <<1, "before", 45>> >>),
      Table(<< <<1, "now", 55>>, <<1, "then", 74>>, <<2, "now", 45>>, <<2, "then", 85>> >>),
      Table(<< <<2, "before", 45>>, <<2, "after", 85>>, <<1, "before", 55>>,
               <<1, "after", 74>>, <<1, "later", 60>>, <<2, "later", 61>> >>),
      [t |-> "ragged", rows |-> << >>] }
PNamed ==
    { Named("vehicle", List(<<55, 45, 65, 54>>), "drugs", List(<<74, 85, 76, 58>>)),
      Named("vehicle", List(<<55, 45, 65>>), "drugs", List(<<74, 85>>)) }
PData ==
    { <<l[1], l[2], NoTable, NoNamed>> : l \in PLists }
    \cup { <<NoSample, NoSample, tb, NoNamed>> : tb \in PTables }
    \cup { <<NoSample, NoSample, NoTable, named>> : named \in PNamed }

PBody(is_json, cl, al, flags, data) ==
    [ is_json |-> is_json, confidence_level |-> cl, alpha |-> al,
      db |-> flags[1], shaprio_walk |-> flags[2], kolmo_with_correction |-> flags[3],
      before |-> data[1], after |-> data[2], table |-> data[3], named |-> data[4] ]

PBodies ==
    { PBody(TRUE, cl, Absent, flags, data) :
        cl \in { Absent, Num(150), Str }, flags \in T1Flags, data \in PData }
    \cup { PBody(FALSE, Absent, Absent, <<FALSE, FALSE, FALSE>>, data) : data \in PData }

PairedTTestOn(bodies, pvalues) ==
    /\ Accepting
    /\ \E body \in bodies : \E p \in pvalues :
          Handle("/paired-t-test-api", body, p, perform_paired_t_test(body, p))

\* Every request body with one p-value, and the well-formed bodies with every p-value.
PFew ==
    { PBody(TRUE, Absent, Absent, flags, data) :
        flags \in T1Flags,
        data \in { <<List(<<55, 45, 65, 54>>), List(<<74, 85, 76, 58>>), NoTable, NoNamed>>,
                   <<NoSample, NoSample,
                     Table(<< <<1, "before", 55>>, <<1, "after", 74>>, <<2, "before", 45>>,
                              <<2, "after", 85>>, <<3, "before", 65>>, <<3, "after", 76>> >>),
                     NoNamed>> } }

PairedTTest ==
    \/ PairedTTestOn(PBodies, POne)
    \/ PairedTTestOn(PFew, PValues)

----------------------------------------------------------------------------
(* two_sample_z_test_api.py *)

\* The except clauses, with the text of the exception in the message.
ExceptWith(exc, text, logs) ==
    CASE exc = "ValueError" ->
           Reply(400, VALUE_ERROR_MSG \o text, NoResult, Append(logs, Error("ValueError")))
      [] exc = "KeyError" ->
           Reply(400, KEY_ERROR_MSG \o text, NoResult, Append(logs, Error("KeyError")))
      [] OTHER -> Except(exc, logs)

\* A JSON string field: Tok("") is the empty string.
NoTok == [t |-> "absent", s |-> ""]
Tok(s) == [t |-> "str", s |-> s]
NumTok == [t |-> "num", s |-> ""]

\* str.lower() on the tokens of the requests.
Lower(s) ==
    CASE s = "Two-Sided" -> "two-sided"
      [] s = "LARGER" -> "larger"
      [] s = "Smaller" -> "smaller"
      [] s = "Greater" -> "greater"
      [] s = "S" -> "s"
      [] OTHER -> s

\* statsmodels' ztest(x1, x2, alternative=...): the test it runs for a token,
\* "invalid" when it raises ValueError("invalid alternative").
ZtestAlternative(alternative) ==
    CASE alternative \in { "two-sided", "2-sided", "2s" } -> "two-sided"
      [] alternative \in { "larger", "l" } -> "larger"
      [] alternative \in { "smaller", "s" } -> "smaller"
      [] OTHER -> "invalid"

\* The operator in the "hypothesis" string, line 106.
HypothesisSign(alternative) ==
    IF alternative = "two-sided" THEN "!="
    ELSE IF alternative = "smaller" THEN "<" ELSE ">"

\* Series.unique(): the distinct values in the order of their first appearance.
RECURSIVE Unique(_)
Unique(xs) ==
    IF xs = << >> THEN << >>
    ELSE LET front == Unique(SubSeq(xs, 1, Len(xs) - 1))
             last == xs[Len(xs)]
         IN  IF \E i \in DOMAIN front : front[i] = last THEN front
             ELSE Append(front, last)

\* df[df[group_col] == g][column]: the values of the rows of group g.
RECURSIVE GroupData(_, _)
GroupData(rows, g) ==
    IF rows = << >> THEN << >>
    ELSE IF Head(rows)[1] = g THEN <<Head(rows)[2]>> \o GroupData(Tail(rows), g)
    ELSE GroupData(Tail(rows), g)

\* Lines 93-124 on two groups of at least one number each; p is the p-value of
\* the test on these data when the statistic is finite.
ZZCompute(body, groups, group1_data, group2_data, confidence, alternative, p) ==
    LET n1 == Len(group1_data)
        n2 == Len(group2_data)
        mean_diff == Sgn(Sum(group1_data) * n2 - Sum(group2_data) * n1)
        spread == ~(AllEqual(group1_data) /\ AllEqual(group2_data))
        \* ztest: the pooled variance is divided by nobs1 + nobs2 - 2
        std_diff == IF n1 + n2 - 2 = 0 THEN NaN
                    ELSE IF spread THEN Fin(1) ELSE Fin(0)
        z_stat == FDiv(Fin(mean_diff), std_diff)
        test == ZtestAlternative(alternative)
        p_value ==
            IF IsNaN(z_stat) THEN PNaN
            ELSE IF IsFinite(z_stat) THEN PNum(p)
            ELSE IF test = "two-sided" THEN PNum(0)
            ELSE IF (test = "larger") = (z_stat.s > 0) THEN PNum(0)
            ELSE PNum(Scale)
        \* Series.std() of one value is nan
        std_err == IF n1 < 2 \/ n2 < 2 THEN NaN
                   ELSE IF spread THEN Fin(1) ELSE Fin(0)
        margin == FMul(Fin(1), std_err)       \* z_critical > 0 for 0 < confidence < 1
    IN
    [ kind |-> "zz",
      hypothesis |-> HypothesisSign(alternative),
      alternative |-> alternative,
      test |-> test,
      grouping_variable |-> body.group_column.s,
      groups |-> groups,
      N |-> <<n1, n2>>,
      confidence_level |-> confidence,
      mean_difference |-> mean_diff,
      lower |-> Bound(margin, -1),
      upper |-> Bound(margin, 1),
      z_stat |-> z_stat,
      p_value |-> p_value,
      conclusion |-> IF PLess(p_value, Scale - confidence)
                     THEN "Significant difference between the means."
                     ELSE "No significant difference between the means." ]

ZZReceived == << Info("Received data") >>

\* The two-group check without the return that follows a failure.
ZZGroupsAny(groups) == TRUE

\* Line 84: len(groups) != 2 fails the request.
ZZGroupsOk(groups) == Len(groups) = 2

\* Lines 80-124, once the fields are checked.
ZZOnData(body, confidence, alternative, p) ==
    LET column == body.column.s
        group_col == body.group_column.s
        data == body.data
        groups == Unique([i \in DOMAIN data.rows |-> data.rows[i][1]])
    IN
    IF data.t = "absent" THEN ExceptWith("KeyError", "'data'", ZZReceived)
    \* df[group_col] on a frame without that column, the empty frame included
    ELSE IF data.rows = << >> \/ group_col \notin data.cols THEN
        ExceptWith("KeyError", "'" \o group_col \o "'", ZZReceived)
    ELSE IF ~ZZGroupsOk(groups) THEN
        Reply(400, "Ensure exactly two groups.", NoResult,
              Append(ZZReceived, Error("Invalid grouping variable")))
    ELSE IF Len(groups) < 2 THEN Except("IndexError", ZZReceived)   \* groups[1]
    ELSE IF column \notin data.cols THEN
        ExceptWith("KeyError", "'" \o column \o "'", ZZReceived)
    ELSE IF ZtestAlternative(alternative) = "invalid" THEN
        ExceptWith("ValueError", "invalid alternative", ZZReceived)
    ELSE
        Reply(200, "",
              ZZCompute(body, groups, GroupData(data.rows, groups[1]),
                        GroupData(data.rows, groups[2]), confidence, alternative, p),
              ZZReceived \o << Info("results"),
                               Info("Two-sample Z-test completed successfully.") >>)

\* Lines 62-143.
perform_two_sample_ztest(body, p) ==
    LET column == body.column
        group_col == body.group_column
        confidence == Get(body.confidence, CONFIDENCE_INTERVAL_DEFAULT)
        alternative == IF body.alternative.t = "absent" THEN Tok("two-sided")
                       ELSE body.alternative
    IN
    IF FloatRaises(confidence) THEN
        ExceptWith("ValueError", "could not convert string to float", << >>)
    \* a number has no method lower(): AttributeError
    ELSE IF alternative.t # "str" THEN Except("AttributeError", << >>)
    \* `not column`: the key is missing or the string is empty
    ELSE IF column.s = "" \/ group_col.s = "" THEN
        ExceptWith("ValueError", "Both 'column' and 'group_column' are required.", << >>)
    ELSE IF ~(0 < confidence.v /\ confidence.v < 1 * Scale) THEN
        ExceptWith("ValueError", "Confidence level must be between 0 and 1.", << >>)
    ELSE ZZOnData(body, confidence.v, Lower(alternative.s), p)


\* The request bodies of /two-sample-ztest.  The rows of "data" are pairs
\* <<group, value>>, and cols the keys that the rows carry.
NoData == [t |-> "absent", cols |-> {}, rows |-> << >>]
Frame(cols, rows) == [t |-> "list", cols |-> cols, rows |-> rows]
BothCols == { "group", "test_scores" }

ZZData ==
    { NoData,
      Frame({}, << >>),
      Frame({"test_scores"}, << <<"", 85>>, <<"", 78>> >>),
      Frame({"group"}, << <<"A", 0>>, <<"B", 0>> >>),
      Frame(BothCols, << <<"A", 85>> >>),
      Frame(BothCols, << <<"A", 85>>, <<"A", 90>> >>),
      Frame(BothCols, << <<"A", 85>>, <<"B", 78>> >>),
      Frame(BothCols, << <<"A", 85>>, <<"A", 90>>, <<"B", 78>>, <<"B", 82>> >>),
      Frame(BothCols, << <<"B", 78>>, <<"A", 85>>, <<"B", 82>>, <<"A", 90>> >>),
      Frame(BothCols, << <<"A", 85>>, <<"A", 85>>, <<"B", 85>>, <<"B", 85>> >>),
      Frame(BothCols, << <<"A", 85>>, <<"A", 85>>, <<"B", 78>>, <<"B", 78>> >>),
      Frame(BothCols, << <<"A", 85>>, <<"B", 78>>, <<"C", 90>> >>) }

ZZAlternatives ==
    { Tok("two-sided"), Tok("Two-Sided"), Tok("LARGER"), Tok("smaller"), Tok("Greater"),
      Tok("invalid_option"), Tok("S"), Tok("2s"), NumTok }

ZZBody(column, group_col, confidence, alternative, data) ==
    [ column |-> column, group_column |-> group_col, confidence |-> confidence,
      alternative |-> alternative, data |-> data ]

ZZBodies ==
    { ZZBody(column, group_col, confidence, NoTok, data) :
        column \in { NoTok, Tok("test_scores") },
        group_col \in { NoTok, Tok(""), Tok("group") },
        confidence \in { Absent, Num(90), Num(150), Num(0), Str },
        data \in ZZData }
    \cup { ZZBody(Tok("test_scores"), Tok("group"), confidence, alternative, data) :
             confidence \in { Absent, Num(150) },
             alternative \in ZZAlternatives,
             data \in ZZData }
    \cup { ZZBody(NoTok, Tok("group"), Absent, NumTok, data) : data \in ZZData }

ZZFew ==
    { ZZBody(Tok("test_scores"), Tok("group"), Absent, alternative, data) :
        alternative \in { NoTok, Tok("S") },
        data \in { Frame({}, << >>),
                   Frame(BothCols, << <<"A", 85>>, <<"A", 90>>, <<"B", 78>>, <<"B", 82>> >>),
                   Frame(BothCols, << <<"A", 85>>, <<"B", 78>>, <<"C", 90>> >>) } }

TwoSampleZTestOn(bodies, pvalues) ==
    /\ Accepting
    /\ \E body \in bodies : \E p \in pvalues :
          Handle("/two-sample-ztest", body, p, perform_two_sample_ztest(body, p))

\* Every request body with one p-value, and a few bodies with every p-value.
TwoSampleZTest ==
    \/ TwoSampleZTestOn(ZZBodies, POne)
    \/ TwoSampleZTestOn(ZZFew, PValues)

----------------------------------------------------------------------------
(* two_sample_t_test_api.py *)

\* A JSON boolean field is "true", "false" or "absent"; dict.get(key, default).
Flag(x, default) == IF x = "absent" THEN default ELSE x = "true"

\* The first of two values, whatever the second is.
MinFirst(a, b) == a

\* Python's min(a, b).
Min(a, b) == IF b < a THEN b ELSE a

\* One entry of test_results: its P-Value and its Result against reject_threshold.
NotRun == [run |-> FALSE, p |-> PNaN, result |-> "none"]
Diagnostic(p, reject_threshold) ==
    [ run |-> TRUE, p |-> p,
      result |-> IF PGreater(p, reject_threshold) THEN "Passed" ELSE "Failed" ]

\* A group of numbers by its size and whether all its values are equal.
GroupOf(pts) == [n |-> Len(pts), const |-> AllEqual(pts)]

\* np.var(group, ddof=1) and np.std(group, ddof=1): nan below two values.
Var(g) == IF g.n < 2 THEN NaN ELSE IF g.const THEN Fin(0) ELSE Fin(1)

\* Lines 151-188.  stat holds the p-values that stats.shapiro and lilliefors
\* give on each group and stats.levene on the two; shapiro raises ValueError
\* below 3 values and lilliefors below 4.
perform_normality_and_variance_tests(g1, g2, reject_threshold, shapiro_wilk, kolmo_with_correction, stat) ==
    LET variance_p(p) == IF g1.const /\ g2.const THEN PNaN ELSE PNum(p) IN
    IF shapiro_wilk /\ (g1.n < 3 \/ g2.n < 3) THEN [raises |-> "ValueError", results |-> << >>]
    ELSE IF kolmo_with_correction /\ (g1.n < 4 \/ g2.n < 4) THEN
        [raises |-> "ValueError", results |-> << >>]
    ELSE
        [ raises |-> "none",
          results |->
            [ shapiro |->
                IF shapiro_wilk
                THEN Diagnostic(PNum(Min(stat.shapiro[1], stat.shapiro[2])), reject_threshold)
                ELSE NotRun,
              kolmo |->
                IF kolmo_with_correction
                THEN Diagnostic(PNum(Min(stat.kolmo[1], stat.kolmo[2])), reject_threshold)
                ELSE NotRun,
              levene |-> Diagnostic(variance_p(stat.levene), reject_threshold),
              brown_forsythe |->
                Diagnostic(variance_p(stat.brown_forsythe), reject_threshold) ] ]

\* The interval of the pooled test, which no line computes: the critical value
\* of n1 + n2 - 2 degrees of freedom, a number whatever the variances are.
compute_pooled_interval(se_diff, confidence, df) == FMul(TCritical(confidence), se_diff)

\* Lines 201-204, the interval by its margin t_critical * se_diff: t.ppf is nan
\* for a nan df.
compute_confidence_interval(se_diff, confidence, df) ==
    LET t_critical == IF IsNaN(df) THEN NaN ELSE TCritical(confidence)
    IN  FMul(t_critical, se_diff)

\* Lines 212-251; mean_difference is the sign of mean1 - mean2.
calculate_and_format_two_sample_t_test(g1, g2, mean_difference, group1_name, group2_name, alpha, confidence, shapiro_wilk, kolmo_with_correction, Students_ttest, welchs_ttest, stat) ==
    LET tests == perform_normality_and_variance_tests(g1, g2, alpha, shapiro_wilk,
                                                      kolmo_with_correction, stat)
        \* the variance under the root of each statistic: nan, 0 or positive
        spread == IF IsNaN(Var(g1)) \/ IsNaN(Var(g2)) THEN NaN
                  ELSE IF g1.const /\ g2.const THEN Fin(0) ELSE Fin(1)
        t_stat == FDiv(Fin(mean_difference), spread)
        \* df_separate is 0 / 0 for two constant groups
        df_separate == IF IsNaN(spread) \/ spread.s = 0 THEN NaN ELSE Fin(1)
        df_pooled == g1.n + g2.n - 2
        \* line 219: one interval for the call, on df_separate
        margin == compute_confidence_interval(spread, confidence.v, df_separate)
        interval == [lower |-> Bound(margin, -1), upper |-> Bound(margin, 1)]
        \* lines 226-240: the entries asked for, each with its df and that interval
        entries == (IF Students_ttest
                    THEN {"Equal Variances Assumed (Student's t-test)"} ELSE {})
                   \cup (IF welchs_ttest
                         THEN {"Equal Variances Not Assumed (Welch's t-test)"} ELSE {})
    IN
    IF tests.raises # "none" THEN [raises |-> tests.raises, result |-> NoResult]
    \* compute_confidence_interval: 1 - confidence on a string
    ELSE IF confidence.t # "num" THEN [raises |-> "TypeError", result |-> NoResult]
    \* calculate_power: ratio = n2 / n1, and 1 / nobs2 in solve_power
    ELSE IF g1.n = 0 \/ g2.n = 0 THEN [raises |-> "ZeroDivisionError", result |-> NoResult]
    ELSE
        [ raises |-> "none",
          result |->
            [ kind |-> "t2",
              keys |-> { "Normality Test", "Sample Statistics", "Difference of Means",
                         "T-Test Results" },
              normality |-> tests.results,
              groups |-> <<group1_name, group2_name>>,
              n |-> <<g1.n, g2.n>>,
              std |-> <<Var(g1), Var(g2)>>,
              mean_difference |-> mean_difference,
              tests |-> entries,
              ci |-> [e \in entries |-> interval],
              t |-> t_stat,
              df_pooled |-> df_pooled,
              df_separate |-> df_separate,
              lower |-> Bound(margin, -1),
              upper |-> Bound(margin, 1),
              margin |-> margin,
              alpha |-> alpha ] ]

\* Lines 83-116: the two groups drawn from the summary statistics, or the
\* exception raised on the way.  draw is the sign of the difference of the
\* means of the two drawn groups.
T2FromValues(values, draw) ==
    LET by_deviation == Flag(values.mean_size_deviation, FALSE)
        by_error == Flag(values.mean_size_error, FALSE)
        entry == IF by_deviation THEN values.mean_size_dev_values
                 ELSE values.mean_size_error_values
        groups == entry.groups
        first == IF by_deviation THEN {"mean", "size", "devi"} ELSE {"mean", "size", "err_val"}
        second == IF by_deviation THEN {"mean2", "size2", "dev2"}
                  ELSE {"mean2", "size2", "err_val"}
        drawn(g) == [n |-> g.size, const |-> g.spread = 0 \/ g.size < 2]
    IN
    IF ~by_deviation /\ ~by_error THEN [raises |-> "ValueError"]
    ELSE IF entry.t = "absent" THEN [raises |-> "ValueError"]
    ELSE IF Len(groups) # 2 THEN [raises |-> "ValueError"]
    ELSE IF ~(first \subseteq groups[1].keys) \/ ~(second \subseteq groups[2].keys) THEN
        [raises |-> "KeyError"]
    \* np.random.normal: a negative scale or a negative size raises ValueError
    ELSE IF groups[1].spread < 0 \/ groups[2].spread < 0 \/ groups[1].size < 0
            \/ groups[2].size < 0 THEN [raises |-> "ValueError"]
    ELSE
        [ raises |-> "none",
          g1 |-> drawn(groups[1]),
          g2 |-> drawn(groups[2]),
          mean_difference |->
              IF groups[1].spread = 0 /\ groups[2].spread = 0
              THEN Sgn(groups[1].mean - groups[2].mean) ELSE draw ]

\* Lines 67-78: the two groups of the "indexed" table.
T2FromIndexed(indexed) ==
    LET rows == [i \in DOMAIN indexed.Data |-> <<indexed.Group[i], indexed.Data[i]>>]
        \* groupby sorts the labels
        labels == Sorted({ indexed.Group[i] : i \in DOMAIN indexed.Group })
    IN
    IF ~({"Group", "Data"} \subseteq indexed.keys) THEN [raises |-> "ValueError"]
    \* pd.DataFrame raises ValueError on lists of different lengths
    ELSE IF Len(indexed.Group) # Len(indexed.Data) THEN [raises |-> "ValueError"]
    \* the dtype of an empty column is object
    ELSE IF ~indexed.numeric \/ indexed.Data = << >> THEN [raises |-> "ValueError"]
    ELSE IF Len(labels) # 2 THEN [raises |-> "ValueError"]
    ELSE
        LET group1 == GroupData(rows, labels[1])
            group2 == GroupData(rows, labels[2])
        IN  [ raises |-> "none",
              g1 |-> GroupOf(group1),
              g2 |-> GroupOf(group2),
              mean_difference |->
                  Sgn(Sum(group1) * Len(group2) - Sum(group2) * Len(group1)),
              names |-> <<labels[1], labels[2]>> ]

\* Line 62.
T2DbSizesOk(group1, group2) == ~(Len(group1) < 2 \/ Len(group2) < 2)

\* Lines 50-65: the two lists "Group1" and "Group2".
T2FromDb(body) ==
    LET group1 == body.Group1
        group2 == body.Group2
    IN
    IF group1.t = "absent" \/ group2.t = "absent" THEN [raises |-> "ValueError"]
    ELSE IF group1.t \notin {"list", "mixed"} \/ group2.t \notin {"list", "mixed"} THEN
        [raises |-> "ValueError"]
    ELSE IF group1.t = "mixed" \/ group2.t = "mixed" THEN [raises |-> "ValueError"]
    ELSE IF ~T2DbSizesOk(group1.pts, group2.pts) THEN [raises |-> "ValueError"]
    ELSE
        [ raises |-> "none",
          g1 |-> GroupOf(group1.pts),
          g2 |-> GroupOf(group2.pts),
          mean_difference |->
              Sgn(Sum(group1.pts) * Len(group2.pts) - Sum(group2.pts) * Len(group1.pts)) ]

\* Lines 33-146.
perform_two_sample_t_test(body, stat, draw) ==
    LET normality_reject_threshold ==
            Get(body.normality_p_value_to_reject, pValueRejectDefault)
        equal_variance_reject_threshold == body.equal_variance_p_value_to_reject
        confidence_level == Get(body.confidence_level, CONFIDENCE_INTERVAL_DEFAULT)
        alpha == Get(body.alpha_value, ALPHA_VALUE_DEFAULT)
        shapiro_wilk == Flag(body.shapiro_wilk, TRUE)
        kolmo_with_correction == Flag(body.kolmo_with_correction, FALSE)
        students_ttest == Flag(body.students_ttest, TRUE)
        welchs_ttest == Flag(body.welchs_ttest, TRUE)
        db_flag == Flag(body.DB, FALSE)
        input == IF db_flag THEN T2FromDb(body)
                 ELSE IF body.indexed.t # "absent" THEN T2FromIndexed(body.indexed)
                 ELSE IF body.values.t # "absent" THEN T2FromValues(body.values, draw)
                 ELSE [raises |-> "ValueError"]         \* "Invalid input format."
        names == IF ~db_flag /\ body.indexed.t # "absent" THEN input.names
                 ELSE <<"Group1", "Group2">>
    IN
    IF FloatRaises(alpha) THEN Except("ValueError", << >>)
    ELSE IF input.raises # "none" THEN Except(input.raises, << >>)
    ELSE
        LET out == calculate_and_format_two_sample_t_test(
                       input.g1, input.g2, input.mean_difference, names[1], names[2],
                       alpha.v, confidence_level, shapiro_wilk, kolmo_with_correction,
                       students_ttest, welchs_ttest, stat)
        IN  IF out.raises # "none" THEN Except(out.raises, << >>)
            ELSE Reply(200, "", out.result, << >>)


\* The request bodies of /two-sample-t-test.
Mixed(xs) == [t |-> "mixed", pts |-> xs]

NoIndexed == [t |-> "absent", keys |-> {}, Group |-> << >>, Data |-> << >>, numeric |-> TRUE]
Indexed(keys, labels, data, numeric) ==
    [t |-> "dict", keys |-> keys, Group |-> labels, Data |-> data, numeric |-> numeric]

NoEntry == [t |-> "absent", groups |-> << >>]
Entry(groups) == [t |-> "list", groups |-> groups]
GroupDict(keys, mean, size, spread) ==
    [keys |-> keys, mean |-> mean, size |-> size, spread |-> spread]
NoSummary ==
    [t |-> "absent", mean_size_deviation |-> "absent", mean_size_error |-> "absent",
     mean_size_dev_values |-> NoEntry, mean_size_error_values |-> NoEntry]
ByDeviation(entry) ==
    [t |-> "dict", mean_size_deviation |-> "true", mean_size_error |-> "absent",
     mean_size_dev_values |-> entry, mean_size_error_values |-> NoEntry]
ByError(entry) ==
    [t |-> "dict", mean_size_deviation |-> "absent", mean_size_error |-> "true",
     mean_size_dev_values |-> NoEntry, mean_size_error_values |-> entry]

T2Input(db, group1, group2, named, indexed, values) ==
    [DB |-> db, Group1 |-> group1, Group2 |-> group2, named |-> named,
     indexed |-> indexed, values |-> values]
DbLists(group1, group2) == T2Input("true", group1, group2, NoNamed, NoIndexed, NoSummary)
NamedLists(named) == T2Input("absent", NoSample, NoSample, named, NoIndexed, NoSummary)
IndexedTable(indexed) == T2Input("absent", NoSample, NoSample, NoNamed, indexed, NoSummary)
SummaryValues(values) == T2Input("absent", NoSample, NoSample, NoNamed, NoIndexed, values)

\* The two groups of the summary: sizes size1 and size2, deviations dev1 and dev2.
DevGroups(size1, dev1, size2, dev2) ==
    Entry(<< GroupDict({"mean", "size", "devi"}, 55, size1, dev1),
             GroupDict({"mean2", "size2", "dev2"}, 74, size2, dev2) >>)

T2DbInputs ==
    { DbLists(List(<<55, 45, 65, 54>>), List(<<74, 85, 76, 58>>)),
      DbLists(List(<<55, 45, 65>>), List(<<74, 85, 76>>)),
      DbLists(List(<<55, 45>>), List(<<74, 85>>)),
      DbLists(List(<<55>>), List(<<74, 85, 76, 58>>)),
      DbLists(List(<< >>), List(<< >>)),
      DbLists(List(<<55, 45, 65, 54>>), NoSample),
      DbLists(Mixed(<<55, 65>>), List(<<74, 85, 76>>)),
      DbLists([t |-> "str", pts |-> << >>], List(<<74, 85, 76>>)),
      DbLists(List(<<50, 50, 50, 50>>), List(<<50, 50, 50, 50>>)) }
T2NamedInputs ==
    { NamedLists(NoNamed),
      NamedLists(Named("vehicle", List(<<55, 45, 65, 54>>), "drugs", List(<<74, 85, 76, 58>>))),
      NamedLists(Named("group1", List(<<55, 45, 65, 54>>), "group2", List(<<74, 85, 76, 58>>))),
      NamedLists(Named("vehicle", List(<< >>), "drugs", List(<< >>))),
      T2Input("absent", List(<<55, 45, 65, 54>>), List(<<74, 85, 76, 58>>), NoNamed,
              NoIndexed, NoSummary) }
T2IndexedInputs ==
    { IndexedTable(Indexed({"Group", "Data"}, <<2, 1, 1, 2, 1, 2, 1, 2>>,
                           <<74, 55, 45, 85, 65, 76, 54, 58>>, TRUE)),
      IndexedTable(Indexed({"Group", "Data"}, <<1, 1, 1, 2>>, <<55, 45, 65, 74>>, TRUE)),
      IndexedTable(Indexed({"Group", "Data"}, <<1, 2>>, <<55, 74>>, TRUE)),
      IndexedTable(Indexed({"Group", "Data"}, <<1, 1, 1>>, <<55, 45, 65>>, TRUE)),
      IndexedTable(Indexed({"Group", "Data"}, <<1, 2, 3>>, <<55, 74, 60>>, TRUE)),
      IndexedTable(Indexed({"Group", "Data"}, <<1, 1, 2>>, <<55, 45>>, TRUE)),
      IndexedTable(Indexed({"Group", "Data"}, <<1, 1, 2, 2>>, <<55, 45, 74, 85>>, FALSE)),
      IndexedTable(Indexed({"Group", "Data"}, << >>, << >>, TRUE)),
      IndexedTable(Indexed({"Group"}, <<1, 1, 2, 2>>, << >>, TRUE)) }
T2SummaryInputs ==
    { SummaryValues(ByDeviation(DevGroups(11, 10, 11, 12))),
      SummaryValues(ByDeviation(DevGroups(1, 10, 11, 12))),
      SummaryValues(ByDeviation(DevGroups(11, 10, 0, 12))),
      SummaryValues(ByDeviation(DevGroups(11, 0, 11, 0))),
      SummaryValues(ByDeviation(DevGroups(11, 10, -1, 12))),
      SummaryValues(ByDeviation(DevGroups(11, -10, 11, 12))),
      SummaryValues(ByDeviation(Entry(<< GroupDict({"mean", "size", "devi"}, 55, 11, 10),
                                         GroupDict({"mean", "size", "devi"}, 74, 11, 12) >>))),
      SummaryValues(ByDeviation(Entry(<< GroupDict({"mean", "size", "devi"}, 55, 11, 10) >>))),
      SummaryValues(ByDeviation(NoEntry)),
      SummaryValues(ByError(Entry(<< GroupDict({"mean", "size", "err_val"}, 55, 11, 3),
                                     GroupDict({"mean2", "size2", "err_val"}, 74, 1, 4) >>))),
      SummaryValues([ByDeviation(DevGroups(11, 10, 11, 12))
                        EXCEPT !.mean_size_deviation = "false"]) }
T2Inputs == T2DbInputs \cup T2NamedInputs \cup T2IndexedInputs \cup T2SummaryInputs

\* <<shapiro_wilk, kolmo_with_correction>>
T2Flags ==
    { <<"absent", "absent">>, <<"false", "false">>, <<"true", "true">>, <<"false", "true">> }

T2Body(alpha, confidence_level, equal_variance, flags, input) ==
    [ alpha_value |-> alpha, confidence_level |-> confidence_level,
      normality_p_value_to_reject |-> Absent,
      equal_variance_p_value_to_reject |-> equal_variance,
      shapiro_wilk |-> flags[1], kolmo_with_correction |-> flags[2],
      students_ttest |-> "absent", welchs_ttest |-> "absent",
      DB |-> input.DB, Group1 |-> input.Group1, Group2 |-> input.Group2,
      named |-> input.named, indexed |-> input.indexed, values |-> input.values ]

T2Bodies ==
    { T2Body(Absent, Absent, Absent, flags, input) : flags \in T2Flags, input \in T2Inputs }
    \cup { T2Body(alpha, confidence_level, Absent, <<"absent", "absent">>,
                  DbLists(List(<<55, 45, 65, 54>>), List(<<74, 85, 76, 58>>))) :
             alpha \in { Absent, Str }, confidence_level \in { Absent, Str, Num(150) } }

\* The bodies whose diagnostics are followed over all their p-values: two
\* groups of four values, with and without the thresholds of the caller.
T2Core ==
    { T2Body(alpha, Absent, equal_variance, flags, input) :
        alpha \in { Absent, Num(10) },
        equal_variance \in { Absent, Num(1) },
        flags \in { <<"absent", "absent">>, <<"true", "true">> },
        input \in { DbLists(List(<<55, 45, 65, 54>>), List(<<74, 85, 76, 58>>)) } }

\* The same bodies and one of summary statistics, whose groups are drawn.
T2Drawn ==
    { T2Body(Absent, Absent, Absent, <<"absent", "absent">>,
             SummaryValues(ByDeviation(DevGroups(11, 10, 11, 12)))) }
T2Few == T2Core \cup T2Drawn

\* The p-values of the diagnostics: below and above 0.05.
DiagPValues == { 3, 7 }
T2Plain == [shapiro |-> <<7, 7>>, kolmo |-> <<7, 7>>, levene |-> 7, brown_forsythe |-> 7]
T2PlainOnly == { T2Plain }
\* Every p-value of the two normality tests on each group, and every p-value
\* of the two tests of equal variance.
T2Stats ==
    { [shapiro |-> s, kolmo |-> k, levene |-> 7, brown_forsythe |-> 7] :
        s \in DiagPValues \X DiagPValues, k \in DiagPValues \X DiagPValues }
    \cup { [shapiro |-> <<7, 7>>, kolmo |-> <<7, 7>>, levene |-> l, brown_forsythe |-> b] :
             l \in DiagPValues, b \in DiagPValues }

\* np.random.normal is called on the "values" path only.
Draws(body) ==
    IF Flag(body.DB, FALSE) \/ body.indexed.t # "absent" \/ body.values.t = "absent"
    THEN {0} ELSE {-1, 1}

TwoSampleTTestOn(bodies, stats) ==
    /\ Accepting
    /\ \E body \in bodies : \E stat \in stats : \E draw \in Draws(body) :
          Handle("/two-sample-t-test", body, stat,
                 perform_two_sample_t_test(body, stat, draw))

TwoSampleTTest ==
    \/ TwoSampleTTestOn(T2Bodies, T2PlainOnly)
    \/ TwoSampleTTestOn(T2Core, T2Stats)

----------------------------------------------------------------------------
(* Requests whose body is no JSON document *)

\* What the client sent: "malformed" is a body that does not parse, sent with
\* the content type application/json; "text" is a body of another content type.
UnparsedKinds == { "malformed", "text" }
Unparsed(kind) == [t |-> kind, v |-> 0]
UnparsedBodies == { Unparsed(kind) : kind \in UnparsedKinds }

\* request.is_json reads the content type only.
is_json(kind) == kind = "malformed"

\* request.get_json(): BadRequest on a body that does not parse and
\* UnsupportedMediaType on another content type (a flask that returns None
\* there instead makes data.get raise AttributeError); none of them is one of
\* the five exceptions the view functions name.
get_json(kind) == IF kind = "malformed" THEN "BadRequest" ELSE "UnsupportedMediaType"

\* A view function on such a request: paired_t_test_api.py asks is_json first
\* (lines 35-36), the others call get_json at once.
perform_on_unparsed(endpoint, kind) ==
    IF endpoint = "/paired-t-test-api" /\ ~is_json(kind)
    THEN Reply(400, "Invalid input. Please provide JSON data.", NoResult, << >>)
    ELSE Except(get_json(kind), << >>)

NotJson ==
    /\ Accepting
    /\ \E endpoint \in Endpoints : \E kind \in UnparsedKinds :
          Handle(endpoint, Unparsed(kind), 0, perform_on_unparsed(endpoint, kind))

----------------------------------------------------------------------------

Init ==
    /\ app = "init"
    /\ registered = {}
    /\ handlers = << >>
    /\ req = [endpoint |-> "none", body |-> Absent, stat |-> 0]
    /\ resp = [status |-> 0, error |-> "", result |-> NoResult]
    /\ log = << >>
    /\ delivered = [f \in LogFiles |-> 0]
    /\ repeated = "no"
    /\ pValueRejectDefault \in { 1, 5 }

Next ==
    \/ CreateApp
    \/ ZTestOn(ZFew, PValues)
    \/ TwoSampleZTestOn(ZZFew, PValues)
    \/ OneSampleTTestOn(T1Few, PValues)
    \/ TwoSampleTTestOn(T2Few, T2PlainOnly)
    \/ PairedTTest
    \/ NotJson

\* The view functions together, /z-test and /one-sample-t-test on a few bodies each.
Spec == Init /\ [][Next]_vars

\* /z-test alone, on all its bodies.
SpecZ == Init /\ [][CreateApp \/ ZTest]_vars

\* /one-sample-t-test alone, on all its bodies.
SpecT1 == Init /\ [][CreateApp \/ OneSampleTTest]_vars

\* /two-sample-ztest alone, on all its bodies.
SpecZZ == Init /\ [][CreateApp \/ TwoSampleZTest]_vars

\* /two-sample-t-test alone, on all its bodies.
SpecT2 == Init /\ [][CreateApp \/ TwoSampleTTest]_vars

----------------------------------------------------------------------------
(* The claims *)

HasErrorRecord == \E i \in DOMAIN log : log[i].level = "ERROR"
Computed(what) == \E i \in DOMAIN log : log[i] = Info(what)
Rejected(message) == resp.status = 400 /\ resp.error = message /\ resp.result = NoResult

\* C1: start-up succeeds: once create_app has run, the application is running
\* with all five endpoints registered.
C1_StartupSucceeds ==
    app # "init" => (app = "running" /\ registered = Endpoints)

\* C2: the log effects of a request do not depend on the requests handled before
\* it: each of its records is written as for a first request, once to the file
\* of its endpoint and to no other file.
C2_NoSharedState ==
    req.endpoint # "none" =>
        delivered = [f \in LogFiles |-> Copies(LoggerInit(<< >>, LogFile(req.endpoint)), f)]

\* C3: a request returns one of 200, 400, 500, and a failure response (400 or
\* 500) was preceded by an error-level log record.
C3_FailureLogged ==
    req.endpoint # "none" =>
        /\ resp.status \in {200, 400, 500}
        /\ resp.status \in {400, 500} => HasErrorRecord

\* The checks of /z-test on the values the handler reads (a missing field has
\* its default).
ZAlpha == Get(req.body.Alpha_value, ALPHA_VALUE_DEFAULT)
ZYatesCorrection == Get(req.body.Yates_correction, YATES_CORRECTION_DEFAULT)
ZConfidence == Get(req.body.Confidence_interval, CONFIDENCE_INTERVAL_DEFAULT)
ZRowsOf == IF req.body.Data.t = "absent" THEN << >> ELSE req.body.Data.rows
ZAlphaOk == ZAlpha.t = "num" /\ 0 <= ZAlpha.v /\ ZAlpha.v <= Scale
ZYatesOk == ZYatesCorrection.t = "num" /\ 0 <= ZYatesCorrection.v /\ ZYatesCorrection.v <= Scale
ZConfidenceOk == ZConfidence.t = "num" /\ Scale <= ZConfidence.v /\ ZConfidence.v <= 99 * Scale
ZShapeOk == Len(ZRowsOf) = 2 /\ Len(ZRowsOf[1]) = 2 /\ Len(ZRowsOf[2]) = 2
ZPropsOk ==
    /\ 0 <= ZRowsOf[1][2] /\ ZRowsOf[1][2] <= Scale
    /\ 0 <= ZRowsOf[2][2] /\ ZRowsOf[2][2] <= Scale
ZValid == ZAlphaOk /\ ZYatesOk /\ ZConfidenceOk /\ ZShapeOk /\ ZPropsOk

\* C4: a /z-test request is answered 400 with the message of the first failing
\* check, in the order Alpha_value, Yates_correction, Confidence_interval, the
\* shape of Data (also when Data is missing), the proportions; and no statistic
\* is computed.
C4_FirstFailingCheck ==
    req.endpoint = "/z-test" =>
        /\ (ZAlpha.t = "num" /\ ~ZAlphaOk) =>
               Rejected("Alpha_value must be between 0 and 1.")
        /\ (ZAlphaOk /\ ZYatesCorrection.t = "num" /\ ~ZYatesOk) =>
               Rejected("Yates_correction must be either 0 or 1.")
        /\ (ZAlphaOk /\ ZYatesOk /\ ZConfidence.t = "num" /\ ~ZConfidenceOk) =>
               Rejected("Confidence_interval must be between 1 and 99.")
        /\ (ZAlphaOk /\ ZYatesOk /\ ZConfidenceOk /\ ~ZShapeOk) =>
               Rejected("Data must contain two rows and two columns.")
        /\ (ZAlphaOk /\ ZYatesOk /\ ZConfidenceOk /\ ZShapeOk /\ ~ZPropsOk) =>
               Rejected("Proportions must be between 0 and 1.")
        /\ ~ZValid => ~Computed("Z-score")

\* A request failing three checks at once, answered with the first.
C4_Witness ==
    /\ req.endpoint = "/z-test"
    /\ ZAlpha.t = "num" /\ ~ZAlphaOk /\ ZYatesCorrection.t = "num" /\ ~ZYatesOk
    /\ ~ZShapeOk /\ req.body.Data.t = "absent"
    /\ Rejected("Alpha_value must be between 0 and 1.")

\* C5: a /z-test request that passes the checks and has a group of size 0 is
\* answered 400 with the division-by-zero message and no result.
C5_ZeroSize ==
    (req.endpoint = "/z-test" /\ ZValid /\ (ZRowsOf[1][1] = 0 \/ ZRowsOf[2][1] = 0)) =>
        Rejected(ZERO_DIVISION_ERROR_MSG)

C5_Witness ==
    /\ req.endpoint = "/z-test" /\ ZValid
    /\ ZRowsOf[1][1] = 0 /\ ZRowsOf[2][1] > 0
    /\ Rejected(ZERO_DIVISION_ERROR_MSG)

\* C6: a /z-test request without Confidence_interval, and otherwise valid
\* (two groups of positive size whose proportions differ), returns 200.
C6_DefaultConfidence ==
    ( /\ req.endpoint = "/z-test"
      /\ req.body.Confidence_interval = Absent
      /\ ZAlphaOk /\ ZYatesOk /\ ZShapeOk /\ ZPropsOk
      /\ ZRowsOf[1][1] > 0 /\ ZRowsOf[2][1] > 0 /\ ZRowsOf[1][2] # ZRowsOf[2][2] )
    => resp.status = 200

T1Finite(r) ==
    /\ IsFinite(r.t) /\ r.p = "fin" /\ r.lower = "fin" /\ r.upper = "fin"

\* C7: a /one-sample-t-test request whose sample has at least two values, all
\* equal, is answered 400 with an error; and no 200 result holds a statistic,
\* p-value or interval bound that is NaN or infinite.
C7_ZeroVariance ==
    req.endpoint = "/one-sample-t-test" =>
        /\ ( /\ req.body.sample.t = "list" /\ Len(req.body.sample.pts) >= 2
             /\ AllEqual(req.body.sample.pts) )
           => (resp.status = 400 /\ resp.error # "")
        /\ resp.status = 200 => T1Finite(resp.result)

\* C8: a /one-sample-t-test request whose alternative is none of the recognized
\* values is answered 400 with an error and no result.
C8_InvalidAlternative ==
    ( /\ req.endpoint = "/one-sample-t-test"
      /\ req.body.alternative \notin
            {"absent", "two-sided", "greater", "larger", "less", "smaller"} )
    => (resp.status = 400 /\ resp.error # "" /\ resp.result = NoResult)

\* C9: a /one-sample-t-test request whose confidence_level is a number outside
\* the open interval (0, 1) is answered 400 with an error and no result.
C9_InvalidConfidence ==
    ( /\ req.endpoint = "/one-sample-t-test"
      /\ req.body.confidence_level.t = "num"
      /\ ~(0 < req.body.confidence_level.v /\ req.body.confidence_level.v < Scale) )
    => (resp.status = 400 /\ resp.error # "" /\ resp.result = NoResult)

\* The cases of a /one-sample-t-test request without usable data.
T1NoInput == req.body.sample.t = "absent" /\ req.body.values.t = "absent"
T1BadSample ==
    /\ req.body.sample.t # "absent"
    /\ (req.body.sample.t # "list" \/ Len(req.body.sample.pts) < 2)
T1SmallSummary ==
    /\ req.body.sample.t = "absent" /\ req.body.values.t = "dict"
    /\ req.body.values.size.t = "num" /\ req.body.values.size.v < 2

\* C10: a /one-sample-t-test request with neither sample nor values, with a
\* sample that is no list or has fewer than 2 points, or with a summary (the
\* input in use) whose size is below 2, is answered 400 with an error, and no
\* statistic is computed.
C10_NoUsableData ==
    (req.endpoint = "/one-sample-t-test" /\ (T1NoInput \/ T1BadSample \/ T1SmallSummary)) =>
        /\ resp.status = 400 /\ resp.error # "" /\ resp.result = NoResult
        /\ ~Computed("result")

\* A summary of size 1 with a dispersion, rejected.
C10_Witness ==
    /\ req.endpoint = "/one-sample-t-test"
    /\ T1SmallSummary
    /\ req.body.values.deviation.t = "num"
    /\ req.body.confidence_level = Absent
    /\ resp.status = 400 /\ resp.error = VALUE_ERROR_MSG

T1HasSample == req.body.sample.t # "absent"
T1HasValues == req.body.values.t # "absent"

\* C11: a /one-sample-t-test request that produces a result (200) carried
\* exactly one of 'sample' and 'values': not both, not neither.
C11_ExactlyOneInput ==
    (req.endpoint = "/one-sample-t-test" /\ resp.status = 200) =>
        (T1HasSample /\ ~T1HasValues) \/ (T1HasValues /\ ~T1HasSample)

\* The checks of /two-sample-ztest on the fields of the request.
ZZNamesOk == req.body.column.s # "" /\ req.body.group_column.s # ""
ZZConfidence == Get(req.body.confidence, CONFIDENCE_INTERVAL_DEFAULT)
ZZConfidenceOk ==
    ZZConfidence.t = "num" /\ 0 < ZZConfidence.v /\ ZZConfidence.v < Scale
ZZAlternativeIsText == req.body.alternative.t \in { "absent", "str" }
ZZFieldsOk == ZZNamesOk /\ ZZConfidenceOk /\ ZZAlternativeIsText
ZZHasGroupColumn ==
    /\ req.body.data.t = "list" /\ req.body.data.rows # << >>
    /\ req.body.group_column.s \in req.body.data.cols
ZZGroupValues == { req.body.data.rows[i][1] : i \in DOMAIN req.body.data.rows }

\* C12: a /two-sample-ztest request that passes the field checks and whose
\* grouping column does not hold exactly two distinct values is answered 400
\* 'Ensure exactly two groups.', and no z-test result is computed.
C12_ExactlyTwoGroups ==
    ( /\ req.endpoint = "/two-sample-ztest"
      /\ ZZFieldsOk /\ ZZHasGroupColumn
      /\ Cardinality(ZZGroupValues) # 2 )
    => (Rejected("Ensure exactly two groups.") /\ ~Computed("results"))

\* Three groups, rejected.
C12_Witness ==
    /\ req.endpoint = "/two-sample-ztest"
    /\ ZZFieldsOk /\ ZZHasGroupColumn
    /\ Cardinality(ZZGroupValues) = 3
    /\ Rejected("Ensure exactly two groups.")

\* C13: a /two-sample-ztest request is answered 400 by the first failing check
\* in the order: 'column' and 'group_column' present, confidence strictly
\* between 0 and 1, the grouping column exists in 'data' (an empty list has no
\* column), exactly two groups.
C13_CheckOrder ==
    req.endpoint = "/two-sample-ztest" =>
        /\ ~ZZNamesOk =>
               Rejected(VALUE_ERROR_MSG \o "Both 'column' and 'group_column' are required.")
        /\ (ZZNamesOk /\ ZZConfidence.t = "num" /\ ~ZZConfidenceOk) =>
               Rejected(VALUE_ERROR_MSG \o "Confidence level must be between 0 and 1.")
        /\ (ZZNamesOk /\ ZZConfidenceOk /\ req.body.data.t = "list" /\ ~ZZHasGroupColumn) =>
               Rejected(KEY_ERROR_MSG \o "'" \o req.body.group_column.s \o "'")
        /\ (ZZNamesOk /\ ZZConfidenceOk /\ ZZHasGroupColumn
               /\ Cardinality(ZZGroupValues) # 2) =>
               Rejected("Ensure exactly two groups.")

\* C14: a /two-sample-ztest request with exactly two groups whose alternative,
\* lower-cased, is none of two-sided, larger, smaller is answered 400 with an
\* error, and never 200 with a hypothesis.
C14_UnrecognizedAlternative ==
    ( /\ req.endpoint = "/two-sample-ztest"
      /\ ZZFieldsOk /\ ZZHasGroupColumn
      /\ Cardinality(ZZGroupValues) = 2
      /\ req.body.alternative.t = "str"
      /\ Lower(req.body.alternative.s) \notin { "two-sided", "larger", "smaller" } )
    => (resp.status = 400 /\ resp.error # "" /\ resp.result = NoResult)

\* The conclusion of a 200 response says "significant" (rejected).
Significant ==
    CASE req.endpoint = "/z-test" ->
           resp.result.conclusion = "There is a significant difference in the proportions."
      [] req.endpoint = "/two-sample-ztest" ->
           resp.result.conclusion = "Significant difference between the means."
      [] req.endpoint = "/one-sample-t-test" ->
           resp.result.conclusion
             = "The null hypothesis is rejected, indicating a significant difference."
      [] req.endpoint = "/paired-t-test-api" ->
           resp.result.interpretation = "statistically significant"
      [] OTHER -> FALSE

\* The threshold of each family, in hundredths, as the request gives it.
Threshold ==
    CASE req.endpoint = "/z-test" -> ZAlpha.v
      [] req.endpoint = "/two-sample-ztest" -> Scale - ZZConfidence.v
      [] req.endpoint = "/one-sample-t-test" ->
           Get(req.body.P_value_reject, pValueRejectDefault).v
      [] req.endpoint = "/paired-t-test-api" -> Get(req.body.alpha, ALPHA_VALUE_DEFAULT).v
      [] OTHER -> 0

ConclusionFamilies ==
    { "/z-test", "/two-sample-ztest", "/one-sample-t-test", "/paired-t-test-api" }

\* C15: in each family the conclusion of a 200 response is the "significant"
\* string if and only if the p-value is strictly less than the family's
\* threshold; a p-value equal to the threshold gives the other string.
C15_StrictThreshold ==
    (req.endpoint \in ConclusionFamilies /\ resp.status = 200) =>
        (Significant <=> (~resp.result.p_value.nan /\ resp.result.p_value.v < Threshold))

\* A tie on /paired-t-test-api: p = alpha, not significant.
C15_Witness ==
    /\ req.endpoint = "/paired-t-test-api" /\ resp.status = 200
    /\ resp.result.p_value = PNum(Threshold)
    /\ Threshold > 0
    /\ resp.result.interpretation = "not statistically significant"

\* A 200 response of /two-sample-t-test, and the threshold the caller's alpha gives.
T2Answered == req.endpoint = "/two-sample-t-test" /\ resp.status = 200
T2Alpha == Get(req.body.alpha_value, ALPHA_VALUE_DEFAULT).v

\* The fixed threshold of the normality diagnostics, 0.05 in hundredths.
NORMALITY_THRESHOLD == 5

\* A diagnostic that was run is "Passed" exactly when its p-value is above x.
PassedAbove(d, x) == d.run => (d.result = "Passed" <=> (~d.p.nan /\ d.p.v > x))

\* Two successive requests to /two-sample-t-test on the same data (the same
\* p-values), both answered 200, whose bodies differ in alpha_value only.
T2OnlyAlphaChanged ==
    /\ req.endpoint = "/two-sample-t-test" /\ req'.endpoint = "/two-sample-t-test"
    /\ resp.status = 200 /\ resp'.status = 200
    /\ req'.stat = req.stat
    /\ req'.body = [req.body EXCEPT !.alpha_value = req'.body.alpha_value]

C16_FixedThreshold ==
    T2Answered =>
        /\ PassedAbove(resp.result.normality.shapiro, NORMALITY_THRESHOLD)
        /\ PassedAbove(resp.result.normality.kolmo, NORMALITY_THRESHOLD)

C16_AlphaIndependent ==
    T2OnlyAlphaChanged =>
        /\ resp'.result.normality.shapiro.result = resp.result.normality.shapiro.result
        /\ resp'.result.normality.kolmo.result = resp.result.normality.kolmo.result

\* C16: a normality diagnostic is "Passed" if and only if its p-value is
\* greater than the fixed 0.05, and two requests that differ only in the
\* caller's alpha have the same normality Result fields (stated on the
\* two-sample t-test, the family whose diagnostics take a threshold argument).
C16_NormalityThreshold == []C16_FixedThreshold /\ [][C16_AlphaIndependent]_vars

C17_CallerThreshold ==
    (T2Answered /\ req.body.equal_variance_p_value_to_reject.t = "num") =>
        /\ PassedAbove(resp.result.normality.levene,
                       req.body.equal_variance_p_value_to_reject.v)
        /\ PassedAbove(resp.result.normality.brown_forsythe,
                       req.body.equal_variance_p_value_to_reject.v)

C17_AlphaIndependent ==
    T2OnlyAlphaChanged =>
        /\ resp'.result.normality.levene.result = resp.result.normality.levene.result
        /\ resp'.result.normality.brown_forsythe.result
             = resp.result.normality.brown_forsythe.result

\* C17: the Levene and the Brown-Forsythe results of the two-sample t-test are
\* each "Passed" if and only if that p-value is greater than the caller's
\* 'equal_variance_p_value_to_reject', and changing alpha alone does not change
\* them.
C17_EqualVarianceThreshold == []C17_CallerThreshold /\ [][C17_AlphaIndependent]_vars

\* The reported p-value of a normality test run on two groups whose p-values
\* are ps, against the threshold the diagnostic is given.
MinOfGroups(d, ps, x) ==
    d.run =>
        /\ ~d.p.nan /\ d.p.v \in { ps[1], ps[2] } /\ d.p.v <= ps[1] /\ d.p.v <= ps[2]
        /\ d.result = "Failed" <=> (ps[1] <= x \/ ps[2] <= x)

\* C18: a normality test run on the two groups of a two-sample t-test reports
\* the minimum of the two groups' p-values, and its Result is "Failed" if and
\* only if at least one group alone fails the threshold.
C18_MinimumOfGroups ==
    T2Answered =>
        /\ MinOfGroups(resp.result.normality.shapiro, req.stat.shapiro, T2Alpha)
        /\ MinOfGroups(resp.result.normality.kolmo, req.stat.kolmo, T2Alpha)

\* Only the second group fails, in both normality tests.
C18_Witness ==
    /\ T2Answered
    /\ resp.result.normality.shapiro.run /\ resp.result.normality.kolmo.run
    /\ req.stat.shapiro[1] > T2Alpha /\ req.stat.shapiro[2] <= T2Alpha
    /\ req.stat.kolmo[1] > T2Alpha /\ req.stat.kolmo[2] <= T2Alpha
    /\ resp.result.normality.shapiro.result = "Failed"
    /\ resp.result.normality.kolmo.result = "Failed"

\* C19: a /two-sample-t-test request of two numeric lists of at least two
\* values under two arbitrary names, without 'DB', is answered 200 with the
\* keys 'Difference of Means' and the two t-test variants.
C19_ArbitraryGroupNames ==
    ( /\ req.endpoint = "/two-sample-t-test"
      /\ req.body.DB = "absent" /\ req.body.named.t = "lists"
      /\ \A i \in {1, 2} :
            req.body.named.lists[i].t = "list" /\ Len(req.body.named.lists[i].pts) >= 2 )
    => /\ resp.status = 200
       /\ "Difference of Means" \in resp.result.keys
       /\ { "Equal Variances Assumed (Student's t-test)",
            "Equal Variances Not Assumed (Welch's t-test)" }
            \subseteq (resp.result.keys \cup resp.result.tests)

\* The sizes of the two groups of a /two-sample-t-test request, on each input path.
T2DbGroups ==
    /\ req.body.DB = "true"
    /\ req.body.Group1.t = "list" /\ req.body.Group2.t = "list"
T2IndexedGroups ==
    /\ req.body.DB # "true" /\ req.body.indexed.t = "dict"
    /\ {"Group", "Data"} \subseteq req.body.indexed.keys
    /\ req.body.indexed.numeric
    /\ Len(req.body.indexed.Group) = Len(req.body.indexed.Data)
    /\ Cardinality({ req.body.indexed.Group[i] : i \in DOMAIN req.body.indexed.Group }) = 2
T2SummaryEntry ==
    IF req.body.values.mean_size_deviation = "true"
    THEN req.body.values.mean_size_dev_values
    ELSE req.body.values.mean_size_error_values
T2SummaryGroups ==
    /\ req.body.DB # "true" /\ req.body.indexed.t = "absent" /\ req.body.values.t = "dict"
    /\ "true" \in { req.body.values.mean_size_deviation, req.body.values.mean_size_error }
    /\ T2SummaryEntry.t = "list" /\ Len(T2SummaryEntry.groups) = 2
T2SmallGroup ==
    \/ T2DbGroups /\ (Len(req.body.Group1.pts) < 2 \/ Len(req.body.Group2.pts) < 2)
    \/ T2IndexedGroups
         /\ \E g \in { req.body.indexed.Group[i] : i \in DOMAIN req.body.indexed.Group } :
               Cardinality({ i \in DOMAIN req.body.indexed.Group :
                               req.body.indexed.Group[i] = g }) < 2
    \/ T2SummaryGroups
         /\ (T2SummaryEntry.groups[1].size < 2 \/ T2SummaryEntry.groups[2].size < 2)

\* C20: on each input path of /two-sample-t-test a request in which a group
\* has fewer than 2 values is answered 400 with an error and no result,
\* whatever the diagnostic flags are.
C20_SmallGroup ==
    (req.endpoint = "/two-sample-t-test" /\ T2SmallGroup) =>
        (resp.status = 400 /\ resp.error # "" /\ resp.result = NoResult)


\* The response of the last except clause: 500 and the generic message alone.
GenericFailure ==
    resp.status = 500 /\ resp.error = UNEXPECTED_ERROR_MSG /\ resp.result = NoResult

\* The request was no JSON document.
NotParsed ==
    \/ req.body \in UnparsedBodies
    \/ req.endpoint = "/paired-t-test-api" /\ req.body \notin UnparsedBodies
         /\ ~req.body.is_json

\* C21: on every endpoint a failure that is none of ValueError, KeyError,
\* TypeError, ZeroDivisionError, IndexError is answered 500 with the generic
\* message and nothing else; a request whose body is no JSON document is
\* such a failure.
C21_UnclassifiedFailure ==
    /\ (req.endpoint # "none" /\ NotParsed) => GenericFailure
    /\ (\E i \in DOMAIN log : log[i] = Error("Unexpected error")) => GenericFailure


\* A parsed request to /paired-t-test-api.
PairedRequest ==
    req.endpoint = "/paired-t-test-api" /\ req.body \notin UnparsedBodies /\ req.body.is_json

\* The lengths of the two sequences of a paired request: the two lists, or the
\* values of a long-format table under each of the two labels.
PairedAsLists == req.body.before.t = "list" /\ req.body.after.t = "list"
PairedAsTable ==
    /\ req.body.before.t = "absent" \/ req.body.after.t = "absent"
    /\ req.body.table.t = "table"
    /\ Treatments(req.body.table.rows) = {"before", "after"}
Labelled(label) ==
    Cardinality({ i \in DOMAIN req.body.table.rows : req.body.table.rows[i][2] = label })
PairedLengths ==
    IF PairedAsLists THEN <<Len(req.body.before.pts), Len(req.body.after.pts)>>
    ELSE <<Labelled("before"), Labelled("after")>>

\* C22: a paired request whose two sequences differ in length, or have fewer
\* than 2 values, is answered 400 with an error, and calculate_paired_t_test
\* is not called (no result is returned or logged).
C22_UnequalOrShort ==
    ( /\ PairedRequest
      /\ PairedAsLists \/ PairedAsTable
      /\ PairedLengths[1] # PairedLengths[2] \/ PairedLengths[1] < 2 )
    => (resp.status = 400 /\ resp.error # "" /\ resp.result = NoResult /\ ~Computed("result"))


\* The classes of a float.
FloatClasses == {NaN} \cup { Fin(x) : x \in -1..1 } \cup { Inf(x) : x \in {-1, 1} }

\* C23: a paired request of two equal-length numeric lists of at least 2 values
\* under two arbitrary treatment names is answered 200 with 'T-Test Results'
\* and its 't-Statistic'.
C23_ArbitraryTreatmentNames ==
    ( /\ PairedRequest
      /\ req.body.named.t = "lists"
      /\ Len(req.body.named.lists[1].pts) = Len(req.body.named.lists[2].pts)
      /\ Len(req.body.named.lists[1].pts) >= 2 )
    \* the result of calculate_paired_t_test holds 'T-Test Results' with 't-Statistic'
    => (resp.status = 200 /\ resp.result.kind = "paired" /\ resp.result.t \in FloatClasses)


\* The two sequences an accepted paired request is computed on.
PairedBefore ==
    IF PairedAsLists THEN req.body.before.pts ELSE Column(req.body.table.rows, "before")
PairedAfter ==
    IF PairedAsLists THEN req.body.after.pts ELSE Column(req.body.table.rows, "after")

\* The sign of mean(after) - mean(before).
AfterMinusBefore == Sgn(Sum(PairedAfter) - Sum(PairedBefore))

\* C24: the differences of the paired t-test are after_i - before_i: the
\* 'Mean Difference' of an accepted request is mean(after) - mean(before), and
\* the t-statistic is the one of that difference (both have its sign).
C24_AfterMinusBefore ==
    (PairedRequest /\ resp.status = 200 /\ IsFinite(resp.result.mean_diff)) =>
        /\ resp.result.mean_diff = Fin(AfterMinusBefore)
        /\ ~IsNaN(resp.result.t) => resp.result.t.s = AfterMinusBefore


\* A long-format request whose table pivots (no subject has a label twice).
PairedLong ==
    /\ PairedRequest
    /\ req.body.before.t = "absent" \/ req.body.after.t = "absent"
    /\ req.body.table.t = "table" /\ ~PivotRaises(req.body.table.rows)
PairedLabels == Cardinality(Treatments(req.body.table.rows))

\* Every subject has a value under every label, there are at least 2 subjects
\* and the request asks for nothing else that can fail.
PairedLongComplete ==
    /\ \A s \in { req.body.table.rows[i][1] : i \in DOMAIN req.body.table.rows } :
         \A l \in Treatments(req.body.table.rows) : Cell(req.body.table.rows, s, l) # {}
    /\ Len(Subjects(req.body.table.rows)) >= 2
    /\ req.body.confidence_level = Absent /\ req.body.alpha = Absent
    /\ ~req.body.shaprio_walk /\ ~req.body.kolmo_with_correction

\* C25: a long-format paired request is accepted only if its treatment labels
\* are exactly two: any other number of labels is answered 400, and a table of
\* exactly two labels is paired on those two columns.
C25_TwoTreatmentColumns ==
    /\ (PairedLong /\ PairedLabels # 2) => resp.status = 400
    /\ (PairedLong /\ PairedLabels = 2 /\ PairedLongComplete) =>
           (resp.status = 200 /\ resp.result.n = Len(Subjects(req.body.table.rows)))


\* The interval of a result runs from its lower to its upper bound: no bound is
\* nan, the infinite bounds are on their own sides, and two finite bounds are
\* centre - margin and centre + margin of a margin that is not negative.
CiOrdered(r) ==
    /\ r.lower \in { "fin", "ninf" }
    /\ r.upper \in { "fin", "pinf" }
    /\ (r.kind \in { "t1", "t2" } /\ r.lower = "fin") => r.margin.s >= 0

\* A 200 response that carries an interval.
HasInterval == resp.status = 200 /\ (resp.result.kind = "t2" => resp.result.tests # {})

\* C26: in every 200 response of every endpoint the lower bound of the
\* confidence interval is less than or equal to its upper bound.
C26_LowerBelowUpper == (req.endpoint # "none" /\ HasInterval) => CiOrdered(resp.result)


\* The request drew its two groups with np.random.normal: summary statistics
\* on /two-sample-t-test, neither DB nor an indexed table.
T2ValuesPath ==
    /\ req.endpoint = "/two-sample-t-test"
    /\ req.body \notin UnparsedBodies
    /\ ~Flag(req.body.DB, FALSE)
    /\ req.body.indexed.t = "absent"
    /\ req.body.values.t # "absent"

\* The step handles again the request handled last.
SameRequestAgain == req.endpoint # "none" /\ req' = req /\ handlers' # handlers

C27_DrawnDiffers == repeated = "differs" /\ T2ValuesPath


T2Student == "Equal Variances Assumed (Student's t-test)"
T2Welch == "Equal Variances Not Assumed (Welch's t-test)"
NaNInterval == [lower |-> "nan", upper |-> "nan"]

\* C28: a two-sample t-test result has one interval, computed on the
\* Welch-Satterthwaite degrees of freedom: every entry present carries it, the
\* Student entry too, whose df is n1 + n2 - 2.  Where the Welch df is nan (two
\* groups without variance) the interval of each entry is nan.
C28_OneWelchInterval ==
    T2Answered =>
        LET r == resp.result IN
        /\ r.df_pooled = r.n[1] + r.n[2] - 2
        /\ \A e \in r.tests : r.ci[e] = [lower |-> r.lower, upper |-> r.upper]
        /\ \A e \in r.tests : \A f \in r.tests : r.ci[e] = r.ci[f]
        /\ IsNaN(r.df_separate) => \A e \in r.tests : r.ci[e] = NaNInterval

\* Both entries are present, the Student df is a positive number, the Welch df
\* is nan, and the Student entry carries the nan interval of the Welch df.
C28_Witness ==
    /\ T2Answered
    /\ resp.result.tests = { T2Student, T2Welch }
    /\ resp.result.df_pooled > 0
    /\ IsNaN(resp.result.df_separate)
    /\ resp.result.ci[T2Student] = NaNInterval


\* The requests handled so far that went to the endpoint of the file.
HandledOn(file) == { i \in DOMAIN handlers : handlers[i] = file }

\* Handling a request adds one handler, that of its endpoint, and removes none.
C29_OneHandlerPerRequest == app' = app => handlers' = Append(handlers, LogFile(req'.endpoint))

\* Each record of the request handled last went through every handler: to the
\* file of every endpoint as often as that endpoint has handled a request.
C29_ThroughEveryHandler ==
    req.endpoint # "none" =>
        /\ handlers[Len(handlers)] = LogFile(req.endpoint)
        /\ \A f \in LogFiles : delivered[f] = Cardinality(HandledOn(f))

\* C29: after k handled requests the root logger holds k file handlers, none
\* removed, and a log entry of a request is written through each of them: to the
\* files of other endpoints too, and once per request to its own endpoint.
C29_HandlersAccumulate == [][C29_OneHandlerPerRequest]_vars /\ []C29_ThroughEveryHandler

\* A record of the second request reached the log file of the first request's
\* endpoint, which is another endpoint.
C29_Witness ==
    /\ Len(handlers) = MaxRequests
    /\ handlers[1] # LogFile(req.endpoint)
    /\ log # << >>
    /\ delivered[handlers[1]] >= 1


\* An accepted request of /z-test that gives Yates_correction, 0 or 1.
ZYatesAccepted ==
    /\ req.endpoint = "/z-test" /\ req.body \notin UnparsedBodies
    /\ resp.status = 200
    /\ req.body.Yates_correction \in { Num(0), Num(1 * Scale) }

\* The request that differs in Yates_correction only, and its response.
OtherYates == [req.body EXCEPT !.Yates_correction = Num(1 * Scale - req.body.Yates_correction.v)]
OtherYatesResponse == perform_z_test(OtherYates, req.stat)

\* The fields under 'results'.
ZResults(r) == <<r.difference, r.z_sign, r.p_value, r.lower, r.upper, r.conclusion>>

\* C30: Yates_correction is echoed and not used: the request that differs in
\* Yates_correction only (0 for 1, 1 for 0) is accepted too and has the same
\* 'results'.
C30_YatesUnused ==
    ZYatesAccepted =>
        /\ resp.result.yates_correction = req.body.Yates_correction.v
        /\ OtherYatesResponse.status = 200
        /\ OtherYatesResponse.result.yates_correction # resp.result.yates_correction
        /\ ZResults(OtherYatesResponse.result) = ZResults(resp.result)

\* An accepted request with Yates_correction 1 whose proportions differ
\* significantly.
C30_Witness ==
    /\ ZYatesAccepted
    /\ req.body.Yates_correction = Num(1 * Scale)
    /\ resp.result.z_sign # 0
    /\ resp.result.conclusion = "There is a significant difference in the proportions."

====
